---- MODULE Spec2Model ----
(***************************************************************************)
(* A model of VPN-Manager (Xray-VPN-Manager): the subscription fetch and   *)
(* decode pipeline (src/vpn/mod.rs), the settings merge and local port     *)
(* allocation (assign_local_ports), the process table of running xray      *)
(* processes (src/xray_manager.rs), the reconciliation cycle               *)
(* restart_xray_servers (src/main.rs), the persisted configuration         *)
(* (src/config.rs) and the settings window commands that write the         *)
(* registry and the configuration (src/ui/settings_window.rs).             *)
(***************************************************************************)
EXTENDS Integers, Sequences, FiniteSets, TLC

(***************************************************************************)
(* Bounds of the model.                                                    *)
(***************************************************************************)
\* The longest decoded feed text, in lines.
MaxLines == 3

\* The longest feed text a fetch of the running program is given, in lines.
MaxFeed == 2

\* Background fetch workers in flight at once.
MaxWorkers == 1

\* The xray processes that can run untracked at once.
MaxOrphans == 1

\* The times the Save command writes the config.
MaxSaves == 1

\* The calls of request_menu_update made while the message loop runs.
MaxRequests == 2

\* The ports below 65536 that the second pass of assign_local_ports is
\* entered at after a long list.
MaxTop == 2

(***************************************************************************)
(* Program constants.                                                      *)
(***************************************************************************)
\* let mut next_port = 1080;
FirstPort == 1080

\* The number of values of a u16 (local_port: u16).
U16 == 65536

\* local_port: 0 is what parse_vpn_uri leaves for assign_local_ports.
Unassigned == 0

(***************************************************************************)
(* Strings.                                                                *)
(***************************************************************************)
\* str::starts_with
starts_with(s, prefix) ==
    /\ Len(s) >= Len(prefix)
    /\ SubSeq(s, 1, Len(prefix)) = prefix

RECURSIVE trim_start(_)
trim_start(s) ==
    IF Len(s) > 0 /\ SubSeq(s, 1, 1) = " "
    THEN trim_start(SubSeq(s, 2, Len(s)))
    ELSE s

RECURSIVE trim_end(_)
trim_end(s) ==
    IF Len(s) > 0 /\ SubSeq(s, Len(s), Len(s)) = " "
    THEN trim_end(SubSeq(s, 1, Len(s) - 1))
    ELSE s

\* str::trim, over the one white space character the feed lines hold.
trim(s) == trim_end(trim_start(s))

\* str::to_uppercase over the protocol names the URI decoder reports.
to_uppercase(s) ==
    CASE s = "vless" -> "VLESS"
      [] s = "vmess" -> "VMESS"
      [] s = "trojan" -> "TROJAN"
      [] s = "shadowsocks" -> "SHADOWSOCKS"
      [] s = "socks" -> "SOCKS"
      [] OTHER -> s

(***************************************************************************)
(* The subscription feed and the URI decoder (v2parser, external).         *)
(***************************************************************************)
\* The lines a decoded feed text is made of: a server, the same server
\* under another display name, a second server sent with white space
\* around it and without a name, a third server, a line of an unrecognized
\* scheme, and a line of a recognized scheme the URI decoder panics on.
FeedLines ==
    { "vless://a:1#A", "vless://a:1#A2", " vmess://b:2 ", "trojan://c:3#C",
      "http://c:3", "vless://bad" }

\* The same lines, and a line of a recognized scheme for which the URI
\* decoder returns no usable JSON.
DecoderLines == FeedLines \cup { "ss://x" }

\* v2parser::parser::get_metadata: the JSON it returns, or a panic.
get_metadata(uri) ==
    CASE uri = "vless://a:1#A" ->
            [panic |-> FALSE, json |-> TRUE, protocol |-> "vless",
             address |-> "a", port |-> 1, has_name |-> TRUE, name |-> "A"]
      [] uri = "vless://a:1#A2" ->
            [panic |-> FALSE, json |-> TRUE, protocol |-> "vless",
             address |-> "a", port |-> 1, has_name |-> TRUE, name |-> "A2"]
      [] uri = "vmess://b:2" ->
            [panic |-> FALSE, json |-> TRUE, protocol |-> "vmess",
             address |-> "b", port |-> 2, has_name |-> FALSE, name |-> ""]
      [] uri = "trojan://c:3#C" ->
            [panic |-> FALSE, json |-> TRUE, protocol |-> "trojan",
             address |-> "c", port |-> 3, has_name |-> TRUE, name |-> "C"]
      [] uri = "ss://x" ->
            [panic |-> FALSE, json |-> FALSE, protocol |-> "",
             address |-> "", port |-> 0, has_name |-> FALSE, name |-> ""]
      [] OTHER ->
            [panic |-> TRUE, json |-> FALSE, protocol |-> "",
             address |-> "", port |-> 0, has_name |-> FALSE, name |-> ""]

\* VpnServer
VpnServer(protocol, address, port, name, enabled, local_port, proxy_type) ==
    [protocol |-> protocol, address |-> address, port |-> port,
     name |-> name, enabled |-> enabled, local_port |-> local_port,
     proxy_type |-> proxy_type]

\* get_server_key without the colon between the address and the port.
get_server_key_unseparated(server) ==
    server.protocol \o "://" \o server.address \o ToString(server.port)

\* VpnServer::get_server_key: format!("{}://{}:{}", protocol, address, port)
get_server_key(server) ==
    server.protocol \o "://" \o server.address \o ":" \o ToString(server.port)

\* parse_vpn_uri: Option<VpnServer> as a sequence of at most one server.
parse_vpn_uri(uri) ==
    LET is_supported ==
            \/ starts_with(uri, "vless://")
            \/ starts_with(uri, "vmess://")
            \/ starts_with(uri, "trojan://")
            \/ starts_with(uri, "ss://")
            \/ starts_with(uri, "shadowsocks://")
            \/ starts_with(uri, "socks://")
        metadata == get_metadata(uri)
    IN  IF ~is_supported THEN << >>
        ELSE IF metadata.panic \/ ~metadata.json THEN << >>
        ELSE << VpnServer(to_uppercase(metadata.protocol),
                          metadata.address,
                          metadata.port % U16,
                          IF metadata.has_name THEN metadata.name ELSE "Unnamed",
                          FALSE, Unassigned, "SOCKS") >>

\* What one HTTP GET of the subscription URL yields: whether the transport
\* succeeded (reqwest::blocking::get), whether the body could be read
\* (response.text()), whether the trimmed body is standard base64, whether
\* the decoded bytes are UTF-8, and the lines of the decoded text.
Response(get_ok, text_ok, base64_ok, utf8_ok, lines) ==
    [get_ok |-> get_ok, text_ok |-> text_ok, base64_ok |-> base64_ok,
     utf8_ok |-> utf8_ok, lines |-> lines]

RECURSIVE SeqsUpTo(_, _)
SeqsUpTo(S, n) ==
    IF n = 0 THEN { << >> }
    ELSE LET shorter == SeqsUpTo(S, n - 1)
         IN  shorter \cup { Append(q, x) : q \in shorter, x \in S }

\* The lines the feed holds while the program runs.
LiveLines == { "vless://a:1#A", " vmess://b:2 " }

\* The responses a fetch can be given, for feed texts of at most n lines of L.
Responses(L, n) ==
    { Response(TRUE, TRUE, TRUE, TRUE, lines) : lines \in SeqsUpTo(L, n) }
    \cup { Response(FALSE, FALSE, FALSE, FALSE, << >>),
           Response(TRUE, FALSE, FALSE, FALSE, << >>),
           Response(TRUE, TRUE, FALSE, FALSE, << >>),
           Response(TRUE, TRUE, TRUE, FALSE, << "vless://a:1#A" >>) }

\* The loop over decoded_text.lines() ending at the first line that gives no
\* server.
RECURSIVE parse_lines_until_failure(_)
parse_lines_until_failure(lines) ==
    IF lines = << >> THEN << >>
    ELSE IF parse_vpn_uri(trim(Head(lines))) = << >> THEN << >>
    ELSE parse_vpn_uri(trim(Head(lines))) \o parse_lines_until_failure(Tail(lines))

\* The loop of fetch_and_process_vpn_list over decoded_text.lines().
RECURSIVE parse_lines(_)
parse_lines(lines) ==
    IF lines = << >> THEN << >>
    ELSE parse_vpn_uri(trim(Head(lines))) \o parse_lines(Tail(lines))

\* fetch_and_process_vpn_list reading the decoded bytes as lossy UTF-8.
fetch_and_process_vpn_list_lossy(response) ==
    IF response.get_ok /\ response.text_ok /\ response.base64_ok
    THEN parse_lines(response.lines)
    ELSE << >>

\* fetch_and_process_vpn_list
fetch_and_process_vpn_list(response) ==
    IF response.get_ok
    THEN IF response.text_ok
         THEN IF response.base64_ok
              THEN IF response.utf8_ok
                   THEN parse_lines(response.lines)
                   ELSE << >>
              ELSE << >>
         ELSE << >>
    ELSE << >>

\* The loop of fetch_subscription_uris: uris.insert(key, trimmed), a later
\* line replacing an earlier one of the same key.
RECURSIVE collect_uris(_, _)
collect_uris(lines, uris) ==
    IF lines = << >> THEN uris
    ELSE LET trimmed == trim(Head(lines))
             parsed == parse_vpn_uri(trimmed)
         IN  IF parsed = << >>
             THEN collect_uris(Tail(lines), uris)
             ELSE LET key == get_server_key(parsed[1])
                  IN  collect_uris(Tail(lines),
                        [k \in DOMAIN uris \cup {key} |->
                            IF k = key THEN trimmed ELSE uris[k]])

\* The empty HashMap.
EmptyMap == [k \in {} |-> 0]

\* fetch_subscription_uris
fetch_subscription_uris(response) ==
    IF response.get_ok
    THEN IF response.text_ok
         THEN IF response.base64_ok
              THEN IF response.utf8_ok
                   THEN collect_uris(response.lines, EmptyMap)
                   ELSE EmptyMap
              ELSE EmptyMap
         ELSE EmptyMap
    ELSE EmptyMap

(***************************************************************************)
(* Saved settings and the port allocation.                                 *)
(***************************************************************************)
\* ServerSettings
ServerSettings(local_port, proxy_type, enabled) ==
    [local_port |-> local_port, proxy_type |-> proxy_type, enabled |-> enabled]

\* First pass of assign_local_ports: the saved port, proxy type and enabled
\* flag of every server whose key is saved.
first_pass(servers, saved_settings) ==
    [i \in 1..Len(servers) |->
        LET key == get_server_key(servers[i])
        IN  IF key \in DOMAIN saved_settings
            THEN [servers[i] EXCEPT
                    !.local_port = saved_settings[key].local_port,
                    !.proxy_type = saved_settings[key].proxy_type,
                    !.enabled = saved_settings[key].enabled]
            ELSE servers[i]]

\* The first pass without used_ports.insert(settings.local_port).
first_pass_used_unrecorded(servers, saved_settings) == {}

\* used_ports after the first pass: used_ports.insert(settings.local_port).
first_pass_used(servers, saved_settings) ==
    { saved_settings[get_server_key(servers[i])].local_port :
        i \in { j \in 1..Len(servers) :
                  get_server_key(servers[j]) \in DOMAIN saved_settings } }

\* The skip with an if in place of the while.
skip_used_once(next_port, used_ports) ==
    IF next_port \in used_ports THEN (next_port + 1) % U16 ELSE next_port

\* while used_ports.contains(&next_port) { next_port += 1; }
RECURSIVE skip_used(_, _)
skip_used(next_port, used_ports) ==
    IF next_port \in used_ports
    THEN skip_used((next_port + 1) % U16, used_ports)
    ELSE next_port

\* Second pass of assign_local_ports, from server i on.
RECURSIVE second_pass(_, _, _, _)
second_pass(servers, i, next_port, used_ports) ==
    IF i > Len(servers) THEN servers
    ELSE IF servers[i].local_port = Unassigned
    THEN LET port == skip_used(next_port, used_ports)
         IN  second_pass([servers EXCEPT ![i].local_port = port],
                         i + 1, (port + 1) % U16, used_ports \cup {port})
    ELSE second_pass(servers, i + 1, next_port, used_ports)

\* assign_local_ports
assign_local_ports(servers, saved_settings) ==
    second_pass(first_pass(servers, saved_settings), 1, FirstPort,
                first_pass_used(servers, saved_settings))

(***************************************************************************)
(* State.                                                                  *)
(***************************************************************************)
VARIABLES
    config_file,            \* the persisted config.json: absent, unreadable or a Config
    VPN_SERVERS,            \* vpn::VPN_SERVERS: Mutex<Option<Vec<VpnServer>>>
    XRAY_PROCESSES,         \* xray_manager::XRAY_PROCESSES: key -> runner (its process)
    orphans,                \* the xray processes running that no runner of the table owns
    MENU_UPDATE_REQUESTED,  \* main::MENU_UPDATE_REQUESTED
    pc,                     \* where the main thread is
    cycle,                  \* the locals of restart_xray_servers
    workers,                \* the background fetch threads of the settings window
    settings_window,        \* whether the settings window is open
    last_call,              \* the latest call of xray_manager: what it was given and returned
    saves,                  \* how many times the Save command has written the config
    args,                   \* the arguments of a function applied on its own
    result                  \* and what it returned

vars ==
    << config_file, VPN_SERVERS, XRAY_PROCESSES, orphans, MENU_UPDATE_REQUESTED,
       pc, cycle, workers, settings_window, last_call, saves, args, result >>

program_vars ==
    << config_file, VPN_SERVERS, XRAY_PROCESSES, orphans, MENU_UPDATE_REQUESTED,
       pc, cycle, workers, settings_window, last_call, saves >>

(***************************************************************************)
(* The inputs the functions are applied to.                                *)
(***************************************************************************)
\* The protocol names of the URI decoder, as parse_vpn_uri stores them.
Protocols ==
    { to_uppercase(p) : p \in {"vless", "vmess", "trojan", "shadowsocks", "socks"} }

\* Remote addresses: host names, and text holding the separators of the key.
Addresses == { "a", "a1", "a:1", "1", "::1", "a://b" }

\* Remote ports.
RemotePorts == { 1, 2, 11, 12, 65535 }

\* The servers parse_vpn_uri can return.
KeyServers ==
    { VpnServer(p, a, n, name, FALSE, Unassigned, "SOCKS") :
        p \in Protocols, a \in Addresses, n \in RemotePorts, name \in {"x", "y"} }

\* The keys of the servers every feed may hold, and the key of a server that
\* only the longer feeds hold: saved under 1080, and gone from the others.
FeedKeys == { "VLESS://a:1", "VMESS://b:2" }
GoneKey == "TROJAN://c:3"

\* The local ports found in saved settings.
SavedPorts == { 0, 1080, 1081 }

SettingsValues ==
    { ServerSettings(port, proxy_type, enabled) :
        port \in SavedPorts, proxy_type \in {"SOCKS", "HTTP"}, enabled \in BOOLEAN }

\* Every saved-settings map over the keys K with values in V.
SettingsMaps(K, V) ==
    UNION { [D -> V] : D \in SUBSET K }

\* The saved settings assign_local_ports is applied to.
SavedSettings ==
    { [k \in DOMAIN m \cup G |->
          IF k \in DOMAIN m THEN m[k] ELSE ServerSettings(1080, "SOCKS", TRUE)] :
        m \in SettingsMaps(FeedKeys, SettingsValues), G \in SUBSET {GoneKey} }

(***************************************************************************)
(* The program at rest, while a function is applied on its own.            *)
(***************************************************************************)
\* Config::default()
ConfigDefault ==
    [subscription_url |-> "", xray_binary_path |-> "",
     server_settings |-> EmptyMap, autostart |-> FALSE]

\* The locals of restart_xray_servers before it has run: whether the config
\* was loaded, the config, the recovered URIs, the merged servers, the index
\* of the start loop, and what called it; with them, what the cycle has done
\* so far: the keys its stop_all_servers asked to stop and the starts it
\* requested.
NoCycle ==
    [loaded |-> FALSE, config |-> ConfigDefault, subscription_uris |-> EmptyMap,
     servers |-> << >>, i |-> 0, caller |-> "main",
     stopped |-> {}, starts |-> << >>]

\* No call of xray_manager has just returned. Of a call: its name, whether
\* it returned Ok, the key start_server was given and whether its spawn
\* succeeded, the keys whose runner stop_all_servers asked to stop and those
\* whose termination failed.
NoCall ==
    [op |-> "none", ok |-> TRUE, key |-> "", spawned |-> FALSE,
     stopped |-> {}, failed |-> {}]

ProgramAtRest ==
    /\ config_file = [kind |-> "absent", config |-> ConfigDefault]
    /\ VPN_SERVERS = [some |-> FALSE, servers |-> << >>]
    /\ XRAY_PROCESSES = EmptyMap
    /\ orphans = 0
    /\ MENU_UPDATE_REQUESTED = FALSE
    /\ pc = "rest"
    /\ cycle = NoCycle
    /\ workers = << >>
    /\ settings_window = FALSE
    /\ last_call = NoCall
    /\ saves = 0

(***************************************************************************)
(* get_server_key applied to two servers.                                  *)
(***************************************************************************)
KeyInit ==
    /\ ProgramAtRest
    /\ args \in [a : KeyServers, b : KeyServers]
    /\ result = [done |-> FALSE, a |-> "", b |-> ""]

KeyCall ==
    /\ ~result.done
    /\ result' = [done |-> TRUE,
                  a |-> get_server_key(args.a), b |-> get_server_key(args.b)]
    /\ UNCHANGED << args, program_vars >>

KeyNext == KeyCall

SpecKey == KeyInit /\ [][KeyNext]_vars

(***************************************************************************)
(* The fetch pipeline and assign_local_ports applied to one response and   *)
(* one map of saved settings.                                              *)
(***************************************************************************)
MergeInit ==
    /\ ProgramAtRest
    /\ args \in [response : Responses(FeedLines, MaxLines), saved_settings : SavedSettings]
    /\ result = [stage |-> "start", uris |-> EmptyMap,
                 fetched |-> << >>, servers |-> << >>]

MergeFetch ==
    /\ result.stage = "start"
    /\ result' = [result EXCEPT
                    !.stage = "fetched",
                    !.uris = fetch_subscription_uris(args.response),
                    !.fetched = fetch_and_process_vpn_list(args.response)]
    /\ UNCHANGED << args, program_vars >>

MergeAssign ==
    /\ result.stage = "fetched"
    /\ result' = [result EXCEPT
                    !.stage = "assigned",
                    !.servers = assign_local_ports(result.fetched,
                                                   args.saved_settings)]
    /\ UNCHANGED << args, program_vars >>

MergeNext == MergeFetch \/ MergeAssign

SpecMerge == MergeInit /\ [][MergeNext]_vars

\* The same two calls on every text over DecoderLines, with no saved settings.
LinesInit ==
    /\ ProgramAtRest
    /\ args \in [response : Responses(DecoderLines, MaxLines),
                 saved_settings : { EmptyMap }]
    /\ result = [stage |-> "start", uris |-> EmptyMap,
                 fetched |-> << >>, servers |-> << >>]

SpecLines == LinesInit /\ [][MergeNext]_vars

(***************************************************************************)
(* The persisted configuration (src/config.rs).                            *)
(***************************************************************************)
Urls == { "", "https://feed" }
Paths == { "", "xray.exe" }

Config(subscription_url, xray_binary_path, server_settings) ==
    [subscription_url |-> subscription_url, xray_binary_path |-> xray_binary_path,
     server_settings |-> server_settings, autostart |-> FALSE]

\* The saved settings of a server in the config.json the program starts with.
StartSettingsValues ==
    { ServerSettings(1080, "SOCKS", TRUE), ServerSettings(0, "HTTP", TRUE) }

\* The config.json files the program may find when it starts: no file, no
\* path to look for it (get_config_path fails), a file that cannot be read,
\* a file that is not the JSON of a Config, and the files that are.
ConfigFiles ==
    { [kind |-> "absent", config |-> ConfigDefault],
      [kind |-> "no_path", config |-> ConfigDefault],
      [kind |-> "unreadable", config |-> ConfigDefault],
      [kind |-> "unparsable", config |-> ConfigDefault] }
    \cup { [kind |-> "ok", config |-> Config(u, x, m)] :
             u \in Urls, x \in Paths, m \in SettingsMaps(FeedKeys, StartSettingsValues) }

\* Config::load with unwrap_or_default on the read and on the parse.
load_defaulting(file) ==
    IF file.kind = "ok" THEN [ok |-> TRUE, config |-> file.config]
    ELSE [ok |-> TRUE, config |-> ConfigDefault]

\* Config::load: Result<Config, String>. The config of an Err is never read.
load(file) ==
    IF file.kind = "no_path" THEN [ok |-> FALSE, config |-> ConfigDefault]
    ELSE IF file.kind = "absent" THEN [ok |-> TRUE, config |-> ConfigDefault]
    ELSE IF file.kind = "unreadable" THEN [ok |-> FALSE, config |-> ConfigDefault]
    ELSE IF file.kind = "unparsable" THEN [ok |-> FALSE, config |-> ConfigDefault]
    ELSE [ok |-> TRUE, config |-> file.config]

\* Result::unwrap_or_default
unwrap_or_default(loaded) ==
    IF loaded.ok THEN loaded.config ELSE ConfigDefault

\* The test of restart_xray_servers without the subscription URL.
is_configured_path_only(config) ==
    config.xray_binary_path # ""

\* The test of restart_xray_servers without the binary path.
is_configured_url_only(config) ==
    config.subscription_url # ""

\* restart_xray_servers: !subscription_url.is_empty() && !xray_binary_path.is_empty()
is_configured(config) ==
    /\ config.subscription_url # ""
    /\ config.xray_binary_path # ""

(***************************************************************************)
(* The process table (src/xray_manager.rs).                                *)
(***************************************************************************)
\* XrayRunner: a started xray process, with the listeners of its config.
XrayRunner(uri, socks_port, http_port) ==
    [uri |-> uri, socks_port |-> socks_port, http_port |-> http_port]

\* Option<u16>: None
None == -1

\* The match on proxy_type with the HTTP listener in its last arm.
listener_ports_http_default(local_port, proxy_type) ==
    IF proxy_type = "SOCKS" THEN << local_port, None >>
    ELSE << None, local_port >>

\* start_server: let (socks_port, http_port) = match proxy_type { ... }
listener_ports(local_port, proxy_type) ==
    IF proxy_type = "SOCKS" THEN << local_port, None >>
    ELSE IF proxy_type = "HTTP" THEN << None, local_port >>
    ELSE << local_port, None >>

\* stop_all_servers putting back the runners whose termination failed.
stop_all_servers_keeping_failed(processes, failed) ==
    [table |-> [k \in failed |-> processes[k]],
     stopped |-> DOMAIN processes,
     ok |-> TRUE]

\* stop_all_servers with runner.stop().await? in place of let _ =: the first
\* failed termination ends the call with its error.
stop_all_servers_until_failure(processes, failed) ==
    [table |-> EmptyMap,
     stopped |-> IF failed = {} THEN DOMAIN processes ELSE failed,
     ok |-> failed = {}]

\* stop_all_servers, the terminations of the keys in failed failing: the
\* table it leaves, the keys whose runner it asked to stop, and what it
\* returns.
stop_all_servers(processes, failed) ==
    [table |-> EmptyMap, stopped |-> DOMAIN processes, ok |-> TRUE]

\* start_server storing the runner before runner.start has succeeded.
start_server_registered_first(processes, server_key, uri, local_port, proxy_type, spawned) ==
    LET ports == listener_ports(local_port, proxy_type)
        runner == XrayRunner(uri, ports[1], ports[2])
    IN  [table |-> [k \in DOMAIN processes \cup {server_key} |->
                       IF k = server_key THEN runner ELSE processes[k]],
         ok |-> spawned]

\* start_server, the spawn having succeeded or not: the table it leaves and
\* what it returns.
start_server(processes, server_key, uri, local_port, proxy_type, spawned) ==
    LET ports == listener_ports(local_port, proxy_type)
        runner == XrayRunner(uri, ports[1], ports[2])
    IN  [table |-> IF spawned
                   THEN [k \in DOMAIN processes \cup {server_key} |->
                            IF k = server_key THEN runner ELSE processes[k]]
                   ELSE processes,
         ok |-> spawned]

\* stop_server putting the runner back when its termination fails.
stop_server_keeping_on_failure(processes, server_key, stop_fails) ==
    IF server_key \in DOMAIN processes
    THEN [table |-> IF stop_fails THEN processes
                    ELSE [k \in DOMAIN processes \ {server_key} |-> processes[k]],
          stopped |-> {server_key},
          ok |-> ~stop_fails]
    ELSE [table |-> processes, stopped |-> {}, ok |-> TRUE]

\* stop_server with let _ = runner.stop().await, as stop_all_servers has it.
stop_server_swallowing(processes, server_key, stop_fails) ==
    [table |-> [k \in DOMAIN processes \ {server_key} |-> processes[k]],
     stopped |-> DOMAIN processes \cap {server_key},
     ok |-> TRUE]

\* stop_server, the termination of the runner failing or not: the table it
\* leaves, the keys whose runner it asked to stop, and what it returns.
stop_server(processes, server_key, stop_fails) ==
    IF server_key \in DOMAIN processes
    THEN [table |-> [k \in DOMAIN processes \ {server_key} |-> processes[k]],
          stopped |-> {server_key},
          ok |-> ~stop_fails]
    ELSE [table |-> processes, stopped |-> {}, ok |-> TRUE]

(***************************************************************************)
(* start_server and stop_server applied to one process table.              *)
(***************************************************************************)
\* The values of proxy_type: those the settings window writes, and others a
\* config.json may hold.
ProxyTypes == { "SOCKS", "HTTP", "socks", "HTTPS", "" }

\* The keys start_server and stop_server are called with.
TableKeys == FeedKeys \cup { GoneKey }

\* The runners a table may hold.
Runners == { XrayRunner("vless://a:1#A", 1080, None),
             XrayRunner(" vmess://b:2 ", None, 1081) }

\* The process tables.
Tables == UNION { [D -> Runners] : D \in SUBSET TableKeys }

TableInit ==
    /\ config_file = [kind |-> "absent", config |-> ConfigDefault]
    /\ VPN_SERVERS = [some |-> FALSE, servers |-> << >>]
    /\ XRAY_PROCESSES \in Tables
    /\ orphans = 0
    /\ MENU_UPDATE_REQUESTED = FALSE
    /\ pc = "rest"
    /\ cycle = NoCycle
    /\ workers = << >>
    /\ settings_window = FALSE
    /\ last_call = NoCall
    /\ saves = 0
    /\ args \in [op : {"start_server", "stop_server"}, server_key : TableKeys,
                 uri : {"vless://a:1#A2"}, local_port : {Unassigned, FirstPort},
                 proxy_type : ProxyTypes, succeeds : BOOLEAN]
    /\ result = [done |-> FALSE, ok |-> TRUE, stopped |-> {}, before |-> EmptyMap]

StopServerCall ==
    /\ args.op = "stop_server"
    /\ ~result.done
    /\ LET r == stop_server(XRAY_PROCESSES, args.server_key, ~args.succeeds)
       IN  /\ XRAY_PROCESSES' = r.table
           /\ result' = [done |-> TRUE, ok |-> r.ok, stopped |-> r.stopped,
                         before |-> XRAY_PROCESSES]
    /\ UNCHANGED << config_file, VPN_SERVERS, orphans, MENU_UPDATE_REQUESTED, pc,
                    cycle, workers, settings_window, last_call, saves, args >>

StartServerCall ==
    /\ args.op = "start_server"
    /\ ~result.done
    /\ LET r == start_server(XRAY_PROCESSES, args.server_key, args.uri,
                             args.local_port, args.proxy_type, args.succeeds)
       IN  /\ XRAY_PROCESSES' = r.table
           /\ result' = [done |-> TRUE, ok |-> r.ok, stopped |-> {},
                         before |-> XRAY_PROCESSES]
    /\ UNCHANGED << config_file, VPN_SERVERS, orphans, MENU_UPDATE_REQUESTED, pc,
                    cycle, workers, settings_window, last_call, saves, args >>

TableNext == StopServerCall \/ StartServerCall

SpecTable == TableInit /\ [][TableNext]_vars

(***************************************************************************)
(* The reconciliation cycle: restart_xray_servers (src/main.rs).           *)
(***************************************************************************)
Some(servers) == [some |-> TRUE, servers |-> servers]

\* stop_all_servers, as restart_xray_servers and the Exit command call it.
StopAll(failed) ==
    LET r == stop_all_servers(XRAY_PROCESSES, failed)
    IN  /\ XRAY_PROCESSES' = r.table
        /\ last_call' = [op |-> "stop_all_servers", ok |-> r.ok, key |-> "",
                         spawned |-> FALSE, stopped |-> r.stopped,
                         failed |-> failed]

CycleStopAll ==
    /\ pc = "stop_all"
    /\ \E failed \in SUBSET DOMAIN XRAY_PROCESSES : StopAll(failed)
    /\ cycle' = [cycle EXCEPT !.stopped = last_call'.stopped]
    /\ pc' = "load"
    /\ UNCHANGED << config_file, VPN_SERVERS, orphans, MENU_UPDATE_REQUESTED,
                    workers, settings_window, saves, args, result >>

\* restart_xray_servers leaving at once when Config::load fails, as with
\* let config = Config::load()? in place of the if let.
after_load_returning_on_error(loaded) ==
    IF ~loaded.ok THEN "loop_top"
    ELSE IF is_configured(loaded.config) THEN "fetch_uris"
    ELSE "request_update"

\* Where restart_xray_servers goes on after Config::load: into the two ifs
\* when the config is loaded and configured, else past them to
\* request_menu_update.
after_load(loaded) ==
    IF loaded.ok /\ is_configured(loaded.config)
    THEN "fetch_uris" ELSE "request_update"

CycleLoad ==
    /\ pc = "load"
    /\ LET loaded == load(config_file)
       IN  /\ cycle' = [cycle EXCEPT !.loaded = loaded.ok, !.config = loaded.config]
           /\ pc' = after_load(loaded)
    /\ last_call' = NoCall
    /\ UNCHANGED << config_file, VPN_SERVERS, XRAY_PROCESSES, orphans,
                    MENU_UPDATE_REQUESTED, workers, settings_window,
                    saves, args, result >>

CycleFetchUris ==
    /\ pc = "fetch_uris"
    /\ \E response \in Responses(LiveLines, MaxFeed) :
          cycle' = [cycle EXCEPT
                      !.subscription_uris = fetch_subscription_uris(response)]
    /\ pc' = "fetch_list"
    /\ UNCHANGED << config_file, VPN_SERVERS, XRAY_PROCESSES, orphans,
                    MENU_UPDATE_REQUESTED, workers, settings_window, last_call,
                    saves, args, result >>

CycleFetchList ==
    /\ pc = "fetch_list"
    /\ \E response \in Responses(LiveLines, MaxFeed) :
          LET servers == assign_local_ports(fetch_and_process_vpn_list(response),
                                            cycle.config.server_settings)
          IN  /\ cycle' = [cycle EXCEPT !.servers = servers, !.i = 1]
              /\ VPN_SERVERS' = Some(servers)
    /\ pc' = "start"
    /\ UNCHANGED << config_file, XRAY_PROCESSES, orphans, MENU_UPDATE_REQUESTED,
                    workers, settings_window, last_call, saves, args, result >>

\* The loop over servers.iter() leaving at the first failed start.
next_server_until_failure(i, started, len) ==
    IF started THEN i + 1 ELSE len + 1

\* The loop over servers.iter(): both arms of the match on the result of
\* start_server only log the outcome, and the loop goes on to the next server.
next_server(i, started, len) == i + 1

\* The loop over servers.iter() with the test of server.enabled left out.
should_start_disabled_too(server, settings, subscription_uris) ==
    /\ get_server_key(server) \in DOMAIN settings
    /\ get_server_key(server) \in DOMAIN subscription_uris

\* The three nested tests of the loop over servers.iter(): server.enabled,
\* config.server_settings.get(&server_key), subscription_uris.get(&server_key).
should_start(server, settings, subscription_uris) ==
    /\ server.enabled
    /\ get_server_key(server) \in DOMAIN settings
    /\ get_server_key(server) \in DOMAIN subscription_uris

\* The call of start_server always asking for a SOCKS listener.
start_args_socks(server_key, settings, subscription_uris) ==
    [uri |-> subscription_uris[server_key],
     local_port |-> settings[server_key].local_port,
     proxy_type |-> "SOCKS"]

\* The arguments of the call of start_server: uri, settings.local_port and
\* &settings.proxy_type, settings being config.server_settings.get(&server_key).
start_args(server_key, settings, subscription_uris) ==
    [uri |-> subscription_uris[server_key],
     local_port |-> settings[server_key].local_port,
     proxy_type |-> settings[server_key].proxy_type]

\* One turn of the loop over servers.iter(): a server that is enabled, has
\* saved settings and a recovered URI is started. A runner that insert
\* replaces is dropped, and its process is stopped by the drop or runs on.
CycleStart ==
    /\ pc = "start"
    /\ cycle.i <= Len(cycle.servers)
    /\ LET server == cycle.servers[cycle.i]
           server_key == get_server_key(server)
           settings == cycle.config.server_settings
       IN  IF should_start(server, settings, cycle.subscription_uris)
           THEN \E spawned \in BOOLEAN, orphaned \in BOOLEAN :
                  /\ orphaned => /\ spawned
                                 /\ server_key \in DOMAIN XRAY_PROCESSES
                                 /\ orphans < MaxOrphans
                  /\ LET call == start_args(server_key, settings,
                                             cycle.subscription_uris)
                         r == start_server(XRAY_PROCESSES, server_key, call.uri,
                                           call.local_port, call.proxy_type,
                                           spawned)
                     IN  /\ XRAY_PROCESSES' = r.table
                         /\ orphans' = IF orphaned THEN orphans + 1 ELSE orphans
                         /\ last_call' = [op |-> "start_server", ok |-> r.ok,
                                          key |-> server_key, spawned |-> spawned,
                                          stopped |-> {}, failed |-> {}]
                         /\ cycle' = [cycle EXCEPT
                                        !.i = next_server(@, r.ok, Len(cycle.servers)),
                                        !.starts = Append(@,
                                            [key |-> server_key, ok |-> r.ok,
                                             uri |-> call.uri,
                                             local_port |-> call.local_port,
                                             proxy_type |-> call.proxy_type])]
           ELSE /\ cycle' = [cycle EXCEPT !.i = @ + 1]
                /\ last_call' = NoCall
                /\ UNCHANGED << XRAY_PROCESSES, orphans >>
    /\ UNCHANGED << config_file, VPN_SERVERS, MENU_UPDATE_REQUESTED, pc, workers,
                    settings_window, saves, args, result >>

CycleStartDone ==
    /\ pc = "start"
    /\ cycle.i > Len(cycle.servers)
    /\ pc' = "request_update"
    /\ last_call' = NoCall
    /\ UNCHANGED << config_file, VPN_SERVERS, XRAY_PROCESSES, orphans,
                    MENU_UPDATE_REQUESTED, cycle, workers, settings_window,
                    saves, args, result >>

\* request_menu_update leaving the flag as it finds it.
request_menu_update_skipped(flag) == flag

\* request_menu_update: MENU_UPDATE_REQUESTED.store(true, Ordering::Relaxed)
request_menu_update(flag) == TRUE

\* request_menu_update, and the return to the caller: main enters the message
\* loop, the Save command destroys the settings window and returns to it.
CycleRequestUpdate ==
    /\ pc = "request_update"
    /\ MENU_UPDATE_REQUESTED' = request_menu_update(MENU_UPDATE_REQUESTED)
    /\ pc' = "loop_top"
    /\ cycle' = NoCycle
    /\ settings_window' = IF cycle.caller = "save" THEN FALSE ELSE settings_window
    /\ UNCHANGED << config_file, VPN_SERVERS, XRAY_PROCESSES, orphans, workers,
                    last_call, saves, args, result >>

(***************************************************************************)
(* The settings window (src/ui/settings_window.rs) and the message loop    *)
(* (src/main.rs).                                                          *)
(***************************************************************************)
\* A background fetch thread that has not fetched yet. The thread of
\* create_controls carries the saved settings loaded when the window opened;
\* the thread of the Update button loads the config itself.
Worker(auto, saved_settings) ==
    [auto |-> auto, saved_settings |-> saved_settings, stage |-> "fetch",
     servers |-> << >>]

\* The Settings menu command: create_settings_window and create_controls.
OpenSettings ==
    /\ pc = "idle"
    /\ ~settings_window
    /\ settings_window' = TRUE
    /\ LET config == unwrap_or_default(load(config_file))
       IN  IF config.subscription_url # ""
           THEN /\ Len(workers) < MaxWorkers
                /\ workers' = Append(workers, Worker(TRUE, config.server_settings))
           ELSE workers' = workers
    /\ UNCHANGED << config_file, VPN_SERVERS, XRAY_PROCESSES, orphans,
                    MENU_UPDATE_REQUESTED, pc, cycle, last_call, saves, args, result >>

\* The Update button with a URL entered.
UpdateClicked ==
    /\ pc = "idle"
    /\ settings_window
    /\ Len(workers) < MaxWorkers
    /\ workers' = Append(workers, Worker(FALSE, EmptyMap))
    /\ UNCHANGED << config_file, VPN_SERVERS, XRAY_PROCESSES, orphans,
                    MENU_UPDATE_REQUESTED, pc, cycle, settings_window, last_call,
                    saves, args, result >>

\* Background thread w fetches the list and merges the saved settings.
Fetch(w, response) ==
    /\ workers[w].stage = "fetch"
    /\ LET saved_settings ==
              IF workers[w].auto THEN workers[w].saved_settings
              ELSE unwrap_or_default(load(config_file)).server_settings
       IN  workers' = [workers EXCEPT
              ![w].stage = "publish",
              ![w].servers = assign_local_ports(
                  fetch_and_process_vpn_list(response), saved_settings)]

\* A background thread fetches the list and merges the saved settings.
WorkerFetch ==
    /\ pc # "exited"
    /\ \E w \in 1..Len(workers), response \in Responses(LiveLines, MaxFeed) :
          Fetch(w, response)
    /\ UNCHANGED << config_file, VPN_SERVERS, XRAY_PROCESSES, orphans,
                    MENU_UPDATE_REQUESTED, pc, cycle, settings_window, last_call,
                    saves, args, result >>

\* The store of a thread keeping the servers that are already published.
store_servers_if_none(global_servers, servers) ==
    IF global_servers.some THEN global_servers ELSE Some(servers)

\* *global_servers = Some(servers.clone()), under VPN_SERVERS.lock()
store_servers(global_servers, servers) == Some(servers)

\* Background thread w stores its servers in VPN_SERVERS and ends.
Publish(w) ==
    /\ workers[w].stage = "publish"
    /\ VPN_SERVERS' = store_servers(VPN_SERVERS, workers[w].servers)
    /\ workers' = [j \in 1..(Len(workers) - 1) |->
                      IF j < w THEN workers[j] ELSE workers[j + 1]]

\* The thread stores its servers in VPN_SERVERS and ends.
WorkerPublish ==
    /\ pc # "exited"
    /\ \E w \in 1..Len(workers) : Publish(w)
    /\ UNCHANGED << config_file, XRAY_PROCESSES, orphans, MENU_UPDATE_REQUESTED,
                    pc, cycle, settings_window, last_call, saves, args, result >>

\* Whether servers.get_mut(server_index) finds a server: the registry is
\* Some and has a server at that index (counted from 1 here).
has_server(global_servers, server_index) ==
    /\ global_servers.some
    /\ server_index \in 1..Len(global_servers.servers)

\* The checkbox handler under the guard of try_lock: server.enabled = checked
set_enabled(global_servers, server_index, checked) ==
    IF has_server(global_servers, server_index)
    THEN [global_servers EXCEPT !.servers[server_index].enabled = checked]
    ELSE global_servers

\* The port edit handler under the guard of try_lock: server.local_port = port
set_local_port(global_servers, server_index, port) ==
    IF has_server(global_servers, server_index)
    THEN [global_servers EXCEPT !.servers[server_index].local_port = port]
    ELSE global_servers

\* The combobox handler under the guard of try_lock:
\* server.proxy_type = proxy_type.to_string()
set_proxy_type(global_servers, server_index, proxy_type) ==
    IF has_server(global_servers, server_index)
    THEN [global_servers EXCEPT !.servers[server_index].proxy_type = proxy_type]
    ELSE global_servers

\* A click on the checkbox of row server_index of the server list: the enabled
\* flag of the server at that index of VPN_SERVERS is set to the state of the
\* checkbox. Nothing changes when try_lock fails, when the registry is None
\* or when it has no server at that index.
EnabledClicked ==
    /\ pc = "idle"
    /\ settings_window
    /\ VPN_SERVERS.some
    /\ \E server_index \in 1..Len(VPN_SERVERS.servers), checked \in BOOLEAN :
          VPN_SERVERS' = set_enabled(VPN_SERVERS, server_index, checked)
    /\ UNCHANGED << config_file, XRAY_PROCESSES, orphans, MENU_UPDATE_REQUESTED,
                    pc, cycle, workers, settings_window, last_call, saves,
                    args, result >>

\* The server_settings the Save command builds from VPN_SERVERS: one entry
\* per key, a later server of the same key replacing an earlier one.
build_server_settings(registry) ==
    LET servers == IF registry.some THEN registry.servers ELSE << >>
        keys == { get_server_key(servers[i]) : i \in 1..Len(servers) }
        last(k) == CHOOSE i \in 1..Len(servers) :
                      /\ get_server_key(servers[i]) = k
                      /\ \A j \in 1..Len(servers) :
                            get_server_key(servers[j]) = k => j <= i
    IN  [k \in keys |->
            ServerSettings(servers[last(k)].local_port,
                           servers[last(k)].proxy_type,
                           servers[last(k)].enabled)]

\* The match on config.save() running restart_xray_servers in both arms.
after_save_always_restarting(saved) == "stop_all"

\* The match on config.save(): Ok runs restart_xray_servers, Err shows the
\* error in a message box.
after_save(saved) == IF saved THEN "stop_all" ELSE "message_box"

\* The Save button, config.save() succeeding: restart_xray_servers runs.
SaveClicked ==
    /\ pc = "idle"
    /\ settings_window
    /\ saves < MaxSaves
    /\ saves' = saves + 1
    /\ \E subscription_url \in Urls, xray_binary_path \in Paths :
          config_file' = [kind |-> "ok",
                          config |-> Config(subscription_url, xray_binary_path,
                                            build_server_settings(VPN_SERVERS))]
    /\ pc' = after_save(TRUE)
    /\ cycle' = [NoCycle EXCEPT !.caller = "save"]
    /\ UNCHANGED << VPN_SERVERS, XRAY_PROCESSES, orphans, MENU_UPDATE_REQUESTED,
                    workers, settings_window, last_call, args, result >>

\* The Save button, config.save() failing: get_config_path or the
\* serialization fails, or fs::write fails, before it has touched the file
\* or after it has truncated it (one more write of the file). The error is
\* shown in a message box.
SaveFailed ==
    /\ pc = "idle"
    /\ settings_window
    /\ \/ UNCHANGED << config_file, saves >>
       \/ /\ saves < MaxSaves
          /\ saves' = saves + 1
          /\ config_file' = [kind |-> "unparsable", config |-> ConfigDefault]
    /\ pc' = after_save(FALSE)
    /\ UNCHANGED << VPN_SERVERS, XRAY_PROCESSES, orphans, MENU_UPDATE_REQUESTED,
                    cycle, workers, settings_window, last_call, args, result >>

\* The message box is dismissed: the handler returns to the message loop.
ErrorDismissed ==
    /\ pc = "message_box"
    /\ pc' = "idle"
    /\ UNCHANGED << config_file, VPN_SERVERS, XRAY_PROCESSES, orphans,
                    MENU_UPDATE_REQUESTED, cycle, workers, settings_window,
                    last_call, saves, args, result >>

\* The Cancel button and WM_CLOSE: DestroyWindow.
CloseSettings ==
    /\ pc = "idle"
    /\ settings_window
    /\ settings_window' = FALSE
    /\ UNCHANGED << config_file, VPN_SERVERS, XRAY_PROCESSES, orphans,
                    MENU_UPDATE_REQUESTED, pc, cycle, workers, last_call,
                    saves, args, result >>

\* The top of the message loop: with MENU_UPDATE_REQUESTED set, the tray menu
\* is rebuilt and the flag cleared; then the loop waits for an event. Only
\* restart_xray_servers sets the flag, so the loop is here with the flag set
\* after a cycle and at no other time.
UpdateTrayMenu ==
    /\ pc = "loop_top"
    /\ MENU_UPDATE_REQUESTED' = FALSE
    /\ pc' = "idle"
    /\ UNCHANGED << config_file, VPN_SERVERS, XRAY_PROCESSES, orphans, cycle,
                    workers, settings_window, last_call, saves, args, result >>

\* main returns: the threads end and the registry, the window and the flag
\* are gone; the table is kept as the record of the xray processes still
\* tracked when the program ended.
Exited ==
    /\ pc' = "exited"
    /\ VPN_SERVERS' = [some |-> FALSE, servers |-> << >>]
    /\ workers' = << >>
    /\ settings_window' = FALSE
    /\ MENU_UPDATE_REQUESTED' = FALSE

\* The Exit menu command: stop_all_servers, then the loop breaks.
ExitClicked ==
    /\ pc = "idle"
    /\ \E failed \in SUBSET DOMAIN XRAY_PROCESSES : StopAll(failed)
    /\ Exited
    /\ UNCHANGED << config_file, orphans, cycle, saves, args, result >>

\* GetMessageW returns 0 (WM_QUIT): the loop breaks.
QuitReceived ==
    /\ pc = "idle"
    /\ Exited
    /\ UNCHANGED << config_file, XRAY_PROCESSES, orphans, cycle, last_call,
                    saves, args, result >>

(***************************************************************************)
(* The program.                                                            *)
(***************************************************************************)
NoArgs == [response |-> Response(FALSE, FALSE, FALSE, FALSE, << >>),
           saved_settings |-> EmptyMap]
NoResult == [stage |-> "none", uris |-> EmptyMap, fetched |-> << >>,
             servers |-> << >>]

\* main: restart_xray_servers runs before the message loop.
Init ==
    /\ config_file \in ConfigFiles
    /\ VPN_SERVERS = [some |-> FALSE, servers |-> << >>]
    /\ XRAY_PROCESSES = EmptyMap
    /\ orphans = 0
    /\ MENU_UPDATE_REQUESTED = FALSE
    /\ pc = "stop_all"
    /\ cycle = NoCycle
    /\ workers = << >>
    /\ settings_window = FALSE
    /\ last_call = NoCall
    /\ saves = 0
    /\ args = NoArgs
    /\ result = NoResult

Next ==
    \/ CycleStopAll
    \/ CycleLoad
    \/ CycleFetchUris
    \/ CycleFetchList
    \/ CycleStart
    \/ CycleStartDone
    \/ CycleRequestUpdate
    \/ OpenSettings
    \/ UpdateClicked
    \/ WorkerFetch
    \/ WorkerPublish
    \/ EnabledClicked
    \/ SaveClicked
    \/ SaveFailed
    \/ ErrorDismissed
    \/ CloseSettings
    \/ UpdateTrayMenu
    \/ ExitClicked
    \/ QuitReceived

Spec == Init /\ [][Next]_vars

(***************************************************************************)
(* One reconciliation cycle, from the states its two callers enter it in,  *)
(* with the background threads that may run beside it.                     *)
(***************************************************************************)
\* The tables a cycle may find: the runners an earlier cycle started.
CycleTables ==
    UNION { [D -> { XrayRunner("vless://a:1#A", FirstPort, None) }] :
              D \in SUBSET FeedKeys }

\* The registries a cycle may find.
CycleRegistries ==
    { [some |-> FALSE, servers |-> << >>],
      Some(<< >>),
      Some(<< VpnServer("VLESS", "a", 1, "A", TRUE, FirstPort, "SOCKS") >>) }

\* main calls restart_xray_servers before the message loop, with nothing
\* started, published or opened yet; the Save button calls it with the
\* settings window open, whatever the table and the registry hold, a thread
\* of the Update button being in flight or not.
CycleInit ==
    /\ config_file \in ConfigFiles
    /\ \/ /\ cycle = NoCycle
          /\ VPN_SERVERS = [some |-> FALSE, servers |-> << >>]
          /\ XRAY_PROCESSES = EmptyMap
          /\ workers = << >>
          /\ settings_window = FALSE
          /\ saves = 0
       \/ /\ cycle = [NoCycle EXCEPT !.caller = "save"]
          /\ VPN_SERVERS \in CycleRegistries
          /\ XRAY_PROCESSES \in CycleTables
          /\ workers \in { << >>, << Worker(FALSE, EmptyMap) >> }
          /\ settings_window = TRUE
          /\ saves = 1
    /\ orphans = 0
    /\ MENU_UPDATE_REQUESTED = FALSE
    /\ pc = "stop_all"
    /\ last_call = NoCall
    /\ args = NoArgs
    /\ result = NoResult

\* The steps of restart_xray_servers.
CycleStep ==
    \/ CycleStopAll
    \/ CycleLoad
    \/ CycleFetchUris
    \/ CycleFetchList
    \/ CycleStart
    \/ CycleStartDone
    \/ CycleRequestUpdate

CycleNext ==
    \/ CycleStep
    \/ WorkerFetch
    \/ WorkerPublish

SpecCycle == CycleInit /\ [][CycleNext]_vars

\* restart_xray_servers is straight-line code on the thread that called it:
\* each of its steps is taken once the external call before it has returned.
SpecCycleFair == SpecCycle /\ WF_vars(CycleStep)

(***************************************************************************)
(* Properties of get_server_key (SpecKey).                                 *)
(***************************************************************************)
\* C4: get_server_key is injective over (protocol, address, port): two
\* servers have the same key only if their protocol, address and port are
\* all equal. (The key is a function of these three fields and of nothing
\* else, so repeated calls on the same input return the same key.)
C4_KeyInjective ==
    (result.done /\ result.a = result.b)
        => /\ args.a.protocol = args.b.protocol
           /\ args.a.address = args.b.address
           /\ args.a.port = args.b.port

\* Two servers of different display names have the same key, and a server
\* whose address ends in the other's port digits has another key.
C4_Witness ==
    /\ result.done
    /\ result.a = result.b
    /\ args.a.name # args.b.name

(***************************************************************************)
(* Properties of the fetch pipeline and of assign_local_ports (SpecMerge). *)
(***************************************************************************)
Assigned == result.stage = "assigned"

\* The servers assign_local_ports was given and those it left.
Rows == 1..Len(result.fetched)
KeyOf(i) == get_server_key(result.fetched[i])
HasSaved(i) == KeyOf(i) \in DOMAIN args.saved_settings
SavedOf(i) == args.saved_settings[KeyOf(i)]
PortOf(i) == result.servers[i].local_port

\* The servers the second pass serves: those without saved settings, and
\* those whose saved port is 0.
SecondPass(i) == ~HasSaved(i) \/ SavedOf(i).local_port = Unassigned

\* The saved ports the first pass applied in the call.
AppliedSavedPorts == { SavedOf(i).local_port : i \in { j \in Rows : HasSaved(j) } }

\* The ports in use when the second pass reaches server i.
UsedBefore(i) ==
    AppliedSavedPorts
        \cup { PortOf(j) : j \in { m \in Rows : m < i /\ SecondPass(m) } }

SmallestFree(used) ==
    CHOOSE p \in FirstPort..(FirstPort + Cardinality(used)) :
        /\ p \notin used
        /\ \A q \in FirstPort..(p - 1) : q \in used

\* C1, as claimed: a call of assign_local_ports never leaves two servers of
\* the list with the same local port.
C1_NoSharedPort ==
    Assigned => \A i, j \in Rows : i # j => PortOf(i) # PortOf(j)

\* C1, amended: a port the second pass allocates is the port of no other
\* server of the list; two servers are left with the same local port only
\* when both took it from saved settings.
C1_SharedOnlyFromSaved ==
    Assigned =>
        \A i, j \in Rows :
            (i # j /\ PortOf(i) = PortOf(j)) => (~SecondPass(i) /\ ~SecondPass(j))

\* A saved port equals the port the second pass would allocate first, and
\* the second pass has allocated the next one.
C1_Witness ==
    /\ Assigned
    /\ \E i, j \in Rows :
          /\ ~SecondPass(i) /\ SavedOf(i).local_port = FirstPort
          /\ SecondPass(j) /\ PortOf(j) = FirstPort + 1

\* C2: every server whose key is in saved settings has, after
\* assign_local_ports, exactly the saved local port, proxy kind and enabled
\* flag, for every saved value.
C2_SavedValuesKept ==
    Assigned =>
        \A i \in Rows :
            HasSaved(i) =>
                /\ result.servers[i].local_port = SavedOf(i).local_port
                /\ result.servers[i].proxy_type = SavedOf(i).proxy_type
                /\ result.servers[i].enabled = SavedOf(i).enabled

\* C3: each server whose key is absent from saved settings receives the
\* smallest port >= 1080 used neither by a saved port applied in the call
\* nor by a port allocated earlier in the call; n new servers with no saved
\* settings receive 1080 .. 1080+n-1 in input order.
C3_SmallestFreePort ==
    Assigned =>
        /\ \A i \in Rows : ~HasSaved(i) => PortOf(i) = SmallestFree(UsedBefore(i))
        /\ (\A i \in Rows : ~HasSaved(i))
              => \A i \in Rows : PortOf(i) = FirstPort + i - 1

\* A new server had to skip two saved ports, the saved servers coming
\* before it in the list.
C3_Witness ==
    /\ Assigned
    /\ \E i \in Rows :
          /\ ~HasSaved(i)
          /\ i = 3
          /\ {FirstPort, FirstPort + 1} \subseteq AppliedSavedPorts
          /\ PortOf(i) = FirstPort + 2

\* C8: saved settings are matched by server key only: whatever its display
\* name, a fetched server whose key is saved keeps the saved port, proxy
\* kind and enabled flag, and a fetched server with no saved entry gets the
\* next free port and keeps enabled = false and proxy kind SOCKS.
C8_MatchedByKey ==
    Assigned =>
        \A i \in Rows :
            /\ result.servers[i].name = result.fetched[i].name
            /\ IF HasSaved(i)
               THEN result.servers[i] =
                        [result.fetched[i] EXCEPT
                            !.local_port = SavedOf(i).local_port,
                            !.proxy_type = SavedOf(i).proxy_type,
                            !.enabled = SavedOf(i).enabled]
               ELSE result.servers[i] =
                        [result.fetched[i] EXCEPT
                            !.local_port = SmallestFree(UsedBefore(i)),
                            !.proxy_type = "SOCKS",
                            !.enabled = FALSE]

\* What the fetch was given failed: the transport, the read of the body,
\* the base64 decoding or the UTF-8 decoding.
FetchFailed ==
    \/ ~args.response.get_ok
    \/ ~args.response.text_ok
    \/ ~args.response.base64_ok
    \/ ~args.response.utf8_ok

\* C9: when the transport fails, the body cannot be read, the body is not
\* base64 or the decoded bytes are not UTF-8, fetch_and_process_vpn_list
\* returns an empty list and fetch_subscription_uris an empty map.
C9_FailureGivesEmpty ==
    (result.stage # "start" /\ FetchFailed)
        => /\ result.fetched = << >>
           /\ result.uris = EmptyMap

\* The fetch has returned on a body whose bytes are not UTF-8.
C9_Witness ==
    /\ result.stage = "fetched"
    /\ args.response.base64_ok
    /\ ~args.response.utf8_ok
    /\ args.response.lines # << >>

(***************************************************************************)
(* Properties of the running program (Spec).                               *)
(***************************************************************************)
\* C5: when stop_all_servers returns, the process table is empty and the
\* call reports success, whatever terminations failed, and termination has
\* been attempted for every entry the table held when the call began.
C5_StopAllEmptiesTable ==
    [][(CycleStopAll \/ ExitClicked)
          => /\ XRAY_PROCESSES' = EmptyMap
             /\ last_call'.ok
             /\ last_call'.stopped = DOMAIN XRAY_PROCESSES]_vars

\* stop_all_servers has returned from a call in which the termination of
\* every one of two tracked runners failed.
C5_Witness ==
    /\ last_call.op = "stop_all_servers"
    /\ Cardinality(last_call.failed) = 2
    /\ last_call.failed = last_call.stopped
    /\ XRAY_PROCESSES = EmptyMap

\* C6: a start_server call whose spawn fails returns an error and leaves
\* the process table exactly as it was; a call that changes the table has
\* spawned, and its entry is under the key it was given.
C6_FailedStartInsertsNothing ==
    [][(CycleStart /\ last_call'.op = "start_server")
          => /\ ~last_call'.spawned
                    => (~last_call'.ok /\ XRAY_PROCESSES' = XRAY_PROCESSES)
             /\ XRAY_PROCESSES' # XRAY_PROCESSES
                    => /\ last_call'.spawned
                       /\ last_call'.ok
                       /\ \A k \in DOMAIN XRAY_PROCESSES' :
                             k # last_call'.key
                                => /\ k \in DOMAIN XRAY_PROCESSES
                                   /\ XRAY_PROCESSES'[k] = XRAY_PROCESSES[k]]_vars

\* start_server has failed for a key while another runner is tracked.
C6_Witness ==
    /\ last_call.op = "start_server"
    /\ ~last_call.spawned
    /\ ~last_call.ok
    /\ XRAY_PROCESSES # EmptyMap
    /\ last_call.key \notin DOMAIN XRAY_PROCESSES

\* C7: a cycle that loaded a config with an empty subscription URL or an
\* empty binary path has, at its end, called start_server for no server and
\* left the process table empty, whatever the table and the registry held
\* before it.
C7_UnconfiguredStartsNothing ==
    (/\ pc = "request_update"
     /\ cycle.loaded
     /\ \/ cycle.config.subscription_url = ""
        \/ cycle.config.xray_binary_path = "")
        => /\ cycle.starts = << >>
           /\ XRAY_PROCESSES = EmptyMap

\* A cycle run with a URL and no binary path ends, the table having held
\* runners and the registry servers when it began.
C7_Witness ==
    /\ pc = "request_update"
    /\ cycle.loaded
    /\ cycle.config.subscription_url # ""
    /\ cycle.config.xray_binary_path = ""
    /\ cycle.config.server_settings # EmptyMap
    /\ cycle.stopped # {}
    /\ VPN_SERVERS.some
    /\ VPN_SERVERS.servers # << >>
    /\ cycle.starts = << >>
    /\ XRAY_PROCESSES = EmptyMap

\* C10: in every value published to VPN_SERVERS no two servers have the
\* same key.
C10_RegistryKeysUnique ==
    VPN_SERVERS.some
        => \A i, j \in 1..Len(VPN_SERVERS.servers) :
              i # j => get_server_key(VPN_SERVERS.servers[i])
                          # get_server_key(VPN_SERVERS.servers[j])

\* The servers of a list whose key is k and that are marked enabled.
EnabledUnder(servers, k) ==
    { i \in 1..Len(servers) : get_server_key(servers[i]) = k /\ servers[i].enabled }

\* C11, as claimed: while the program runs, every key in the process table
\* is the key of a server marked enabled in the current registry.
C11_TableKeysEnabledInRegistry ==
    pc # "exited"
        => \A k \in DOMAIN XRAY_PROCESSES :
              /\ VPN_SERVERS.some
              /\ EnabledUnder(VPN_SERVERS.servers, k) # {}

\* C11, amended: while a reconciliation cycle starts its servers and when it
\* ends, every key in the process table is the key of a server marked
\* enabled in the list that cycle merged and published.
C11_TableKeysEnabledInReconciled ==
    pc \in {"start", "request_update"}
        => \A k \in DOMAIN XRAY_PROCESSES : EnabledUnder(cycle.servers, k) # {}

\* A cycle ends with a runner in the table, its merged list holding a
\* disabled server too, while the registry was replaced by a background
\* fetch and no longer is that list.
C11_Witness ==
    /\ pc = "request_update"
    /\ XRAY_PROCESSES # EmptyMap
    /\ \E i \in 1..Len(cycle.servers) : ~cycle.servers[i].enabled
    /\ VPN_SERVERS # Some(cycle.servers)

(***************************************************************************)
(* Properties of stop_server and start_server on one table (SpecTable).    *)
(***************************************************************************)
StopServerReturned == result.done /\ args.op = "stop_server"

\* C12: stop_server(key) on a tracked key removes the entry, asks its
\* runner to stop and returns an error exactly when that termination
\* fails; on an untracked key it returns Ok and leaves the table as it
\* was; the entries under the other keys are what they were.
C12_StopServer ==
    StopServerReturned =>
        /\ args.server_key \notin DOMAIN XRAY_PROCESSES
        /\ DOMAIN XRAY_PROCESSES = DOMAIN result.before \ {args.server_key}
        /\ \A k \in DOMAIN XRAY_PROCESSES : XRAY_PROCESSES[k] = result.before[k]
        /\ IF args.server_key \in DOMAIN result.before
           THEN /\ result.stopped = {args.server_key}
                /\ result.ok = args.succeeds
           ELSE /\ result.stopped = {}
                /\ result.ok
                /\ XRAY_PROCESSES = result.before

\* stop_server has returned an error for a tracked key whose termination
\* failed, the entry being removed and another entry left.
C12_Witness ==
    /\ StopServerReturned
    /\ args.server_key \in DOMAIN result.before
    /\ ~args.succeeds
    /\ ~result.ok
    /\ XRAY_PROCESSES # EmptyMap

(***************************************************************************)
(* Properties of one reconciliation cycle (SpecCycle, SpecCycleFair).      *)
(***************************************************************************)
InCycle ==
    pc \in {"stop_all", "load", "fetch_uris", "fetch_list", "start", "request_update"}

\* C13: every reconciliation cycle returns to its caller, whatever the
\* config load, the fetches and the starts did, and when it has returned
\* MENU_UPDATE_REQUESTED is set.
C13_CycleReturnsAndRequestsUpdate ==
    InCycle ~> (pc = "loop_top" /\ MENU_UPDATE_REQUESTED)

\* A cycle has returned with the flag set after its config load failed.
C13_Witness ==
    /\ pc = "loop_top"
    /\ MENU_UPDATE_REQUESTED
    /\ config_file.kind = "unreadable"

\* A server the cycle is to start: enabled in the merged list, its key in
\* the saved settings and among the recovered URIs.
Eligible(server) ==
    /\ server.enabled
    /\ get_server_key(server) \in DOMAIN cycle.config.server_settings
    /\ get_server_key(server) \in DOMAIN cycle.subscription_uris

\* The keys of the eligible servers among the first n of the merged list,
\* in the order of the list.
RECURSIVE EligibleKeys(_)
EligibleKeys(n) ==
    IF n = 0 THEN << >>
    ELSE IF Eligible(cycle.servers[n])
         THEN Append(EligibleKeys(n - 1), get_server_key(cycle.servers[n]))
         ELSE EligibleKeys(n - 1)

StartedKeys == [j \in 1..Len(cycle.starts) |-> cycle.starts[j].key]

\* C14: a failed start does not abort the batch: when the start loop of a
\* cycle ends, start_server has been called once for each enabled server
\* with saved settings and a recovered URI, in the order of the list,
\* whatever the earlier starts returned, and the key of every start that
\* succeeded is in the process table.
C14_FailedStartDoesNotAbort ==
    /\ pc = "start" => StartedKeys = EligibleKeys(cycle.i - 1)
    /\ (pc = "request_update" /\ cycle.loaded /\ cycle.i > 0)
          => /\ StartedKeys = EligibleKeys(Len(cycle.servers))
             /\ \A j \in 1..Len(cycle.starts) :
                   cycle.starts[j].ok
                      => cycle.starts[j].key \in DOMAIN XRAY_PROCESSES

\* The start of the first server failed, the start of the second succeeded
\* and the cycle ended with the second in the table.
C14_Witness ==
    /\ pc = "request_update"
    /\ Len(cycle.starts) = 2
    /\ ~cycle.starts[1].ok
    /\ cycle.starts[2].ok
    /\ DOMAIN XRAY_PROCESSES = { cycle.starts[2].key }

\* The cycle has loaded a config that holds a URL and a binary path.
CycleConfigured ==
    /\ cycle.loaded
    /\ cycle.config.subscription_url # ""
    /\ cycle.config.xray_binary_path # ""

\* C15: a reconciliation cycle whose config is not loaded, or has an empty
\* URL or binary path, performs no fetch and does not write VPN_SERVERS:
\* a step of a cycle that fetches or that changes the registry is a step of
\* a cycle with a loaded config holding both.
C15_UnconfiguredLeavesRegistry ==
    [][(CycleStep /\ ~CycleConfigured)
          => /\ VPN_SERVERS' = VPN_SERVERS
             /\ pc' \notin {"fetch_list", "start"}
             /\ cycle'.subscription_uris = EmptyMap
             /\ cycle'.servers = << >>]_vars

\* A cycle run by Save with a URL and no binary path ends with the registry
\* holding the servers it held when the cycle began.
C15_Witness ==
    /\ pc = "request_update"
    /\ cycle.caller = "save"
    /\ cycle.loaded
    /\ cycle.config.subscription_url # ""
    /\ cycle.config.xray_binary_path = ""
    /\ workers = << >>
    /\ VPN_SERVERS.some
    /\ VPN_SERVERS.servers # << >>

\* The cycle is past its call of Config::load.
CycleHasLoaded == pc \in {"fetch_uris", "fetch_list", "start", "request_update"}

\* C16: Config::load returns the default config (empty URL, empty binary
\* path, no server settings, autostart false) when the file is absent, an
\* error and no default when the file exists and cannot be read or parsed,
\* and the config of the file otherwise.
C16_LoadDefaultsOnlyWhenAbsent ==
    CycleHasLoaded =>
        /\ config_file.kind = "absent"
              => /\ cycle.loaded
                 /\ cycle.config = [subscription_url |-> "", xray_binary_path |-> "",
                                    server_settings |-> EmptyMap, autostart |-> FALSE]
        /\ config_file.kind \in {"unreadable", "unparsable"} => ~cycle.loaded
        /\ config_file.kind = "ok"
              => (cycle.loaded /\ cycle.config = config_file.config)

\* A cycle has loaded from a file that is not the JSON of a Config, and
\* got an error.
C16_Witness ==
    /\ CycleHasLoaded
    /\ config_file.kind = "unparsable"
    /\ ~cycle.loaded

\* Nothing of the cycle but its stop has happened.
NothingButStop ==
    /\ ~cycle.loaded
    /\ cycle.subscription_uris = EmptyMap
    /\ cycle.servers = << >>
    /\ cycle.starts = << >>

\* C17: in every cycle stop_all_servers runs first and in every case: when
\* it runs nothing has been loaded, fetched or started; the table is empty
\* from its return until the first start; and every entry of the table
\* during the starts and at the end of the cycle was inserted by a
\* successful start of that cycle.
C17_StopAllFirst ==
    /\ pc = "stop_all" => NothingButStop
    /\ pc = "load" => (NothingButStop /\ XRAY_PROCESSES = EmptyMap)
    /\ pc \in {"fetch_uris", "fetch_list"}
          => (cycle.starts = << >> /\ XRAY_PROCESSES = EmptyMap)
    /\ pc \in {"start", "request_update"}
          => \A k \in DOMAIN XRAY_PROCESSES :
                \E j \in 1..Len(cycle.starts) :
                   /\ cycle.starts[j].key = k
                   /\ cycle.starts[j].ok
                   /\ XRAY_PROCESSES[k].uri = cycle.starts[j].uri

\* A cycle ends with a runner it started in the table, and without a runner
\* that the table held when the cycle began.
C17_Witness ==
    /\ pc = "request_update"
    /\ XRAY_PROCESSES # EmptyMap
    /\ \E k \in cycle.stopped : k \notin DOMAIN XRAY_PROCESSES

\* The number of start_server calls of the cycle made with key k, and the
\* number of servers of the merged list with key k that are to be started.
StartsOf(k) == Cardinality({ j \in 1..Len(cycle.starts) : cycle.starts[j].key = k })
EligibleOf(k) ==
    Cardinality({ i \in 1..Len(cycle.servers) :
                    /\ get_server_key(cycle.servers[i]) = k
                    /\ Eligible(cycle.servers[i]) })

StartServerStored ==
    result.done /\ args.op = "start_server" /\ result.ok

StoredRunner == XRAY_PROCESSES[args.server_key]

\* C19, as claimed: the runner start_server stores has its SOCKS listener
\* on the local port when the proxy kind is SOCKS, and its HTTP listener on
\* the local port for every other proxy kind; one listener is bound.
C19_HttpUnlessSocks ==
    StartServerStored =>
        IF args.proxy_type = "SOCKS"
        THEN StoredRunner.socks_port = args.local_port /\ StoredRunner.http_port = None
        ELSE StoredRunner.http_port = args.local_port /\ StoredRunner.socks_port = None

\* C19, amended: the runner has its HTTP listener on the local port when
\* the proxy kind is HTTP, and its SOCKS listener on the local port for
\* every other proxy kind; one listener is bound, the other is None.
C19_SocksUnlessHttp ==
    StartServerStored =>
        IF args.proxy_type = "HTTP"
        THEN StoredRunner.http_port = args.local_port /\ StoredRunner.socks_port = None
        ELSE StoredRunner.socks_port = args.local_port /\ StoredRunner.http_port = None

\* start_server has stored a runner for a proxy kind that is neither SOCKS
\* nor HTTP: its SOCKS listener is on the local port.
C19_Witness ==
    /\ StartServerStored
    /\ args.proxy_type = "HTTPS"
    /\ StoredRunner.socks_port = FirstPort
    /\ StoredRunner.http_port = None

(***************************************************************************)
(* Properties of the lines of the feed (SpecLines).                        *)
(***************************************************************************)
RecognizedPrefixes ==
    { "vless://", "vmess://", "trojan://", "ss://", "shadowsocks://", "socks://" }

\* A line of the decoded text that gives a server: trimmed, it starts with
\* a recognized prefix and the URI decoder returns its metadata.
GivesServer(line) ==
    /\ \E prefix \in RecognizedPrefixes : starts_with(trim(line), prefix)
    /\ ~get_metadata(trim(line)).panic
    /\ get_metadata(trim(line)).json

\* The lines of the response that give a server, in the order of the text.
RECURSIVE ServerLines(_)
ServerLines(lines) ==
    IF lines = << >> THEN << >>
    ELSE IF GivesServer(Head(lines))
         THEN << trim(Head(lines)) >> \o ServerLines(Tail(lines))
         ELSE ServerLines(Tail(lines))

\* C20: on a response that decodes, the result of fetch_and_process_vpn_list
\* holds one server per line that starts with a recognized prefix and that
\* the URI decoder decodes, in the order of the lines; the other lines are
\* skipped one by one.
C20_OneServerPerDecodedLine ==
    (result.stage # "start" /\ ~FetchFailed) =>
        LET good == ServerLines(args.response.lines)
        IN  /\ Len(result.fetched) = Len(good)
            /\ \A i \in 1..Len(good) :
                  LET metadata == get_metadata(good[i])
                  IN  /\ result.fetched[i].address = metadata.address
                      /\ result.fetched[i].port = metadata.port
                      /\ result.fetched[i].name =
                            (IF metadata.has_name THEN metadata.name ELSE "Unnamed")

\* The fetch has returned two servers from a text of three lines, the line
\* between theirs being one the decoder panics on.
C20_Witness ==
    /\ result.stage = "fetched"
    /\ ~FetchFailed
    /\ Len(args.response.lines) = 3
    /\ args.response.lines[2] = "vless://bad"
    /\ Len(result.fetched) = 2
    /\ result.fetched[1].address = "c"
    /\ result.fetched[2].address = "a"

(***************************************************************************)
(* Properties of the publication of the registry (SpecCycle).              *)
(***************************************************************************)
\* The step of restart_xray_servers that publishes its merged list.
CyclePublishes == pc = "fetch_list" /\ pc' = "start"

\* The step of a background thread that publishes its merged list.
WorkerPublishes == Len(workers') < Len(workers)

\* Server s carries what the saved settings hold for its key, or, with no
\* saved entry, the defaults of a fetched server.
CarriesSaved(s, saved_settings) ==
    LET k == get_server_key(s)
    IN  IF k \in DOMAIN saved_settings
        THEN /\ s.local_port = saved_settings[k].local_port
             /\ s.proxy_type = saved_settings[k].proxy_type
             /\ s.enabled = saved_settings[k].enabled
        ELSE /\ s.proxy_type = "SOCKS"
             /\ ~s.enabled

\* C21: the registry is replaced wholesale on every fetch: after a cycle or
\* a background thread publishes, the registry is exactly the list merged
\* from that fetch, whatever the registry held before (servers absent from
\* the fetch and edits that were not saved are gone), and each server of a
\* cycle's list that has a saved entry carries its saved port, proxy kind
\* and enabled flag.
C21_RegistryReplacedWithSavedValues ==
    [][ /\ CyclePublishes =>
            /\ VPN_SERVERS' = Some(cycle'.servers)
            /\ \A i \in 1..Len(VPN_SERVERS'.servers) :
                  CarriesSaved(VPN_SERVERS'.servers[i],
                               cycle.config.server_settings)
        /\ WorkerPublishes =>
            \E w \in 1..Len(workers) :
                /\ workers[w].stage = "publish"
                /\ VPN_SERVERS' = Some(workers[w].servers) ]_vars

(***************************************************************************)
(* assign_local_ports applied twice to one server list and one map of      *)
(* saved settings, the map being laid out in two iteration orders.         *)
(***************************************************************************)
\* The lines of the lists assign_local_ports is applied to here.
OrderLines == { "vless://a:1#A", " vmess://b:2 ", "trojan://c:3#C" }

\* The saved values of the maps.
OrderSettingsValues ==
    { ServerSettings(0, "HTTP", TRUE), ServerSettings(1080, "SOCKS", TRUE),
      ServerSettings(1081, "SOCKS", FALSE), ServerSettings(1080, "HTTP", FALSE) }

\* A HashMap<String, ServerSettings> as the sequence of its entries in one
\* iteration order: every key once.
HashMapEntries ==
    { e \in SeqsUpTo([key : FeedKeys \cup {GoneKey}, settings : OrderSettingsValues],
                     MaxLines) :
        \A i, j \in 1..Len(e) : e[i].key = e[j].key => i = j }

\* The iteration orders of the map whose entries are e.
IterationOrders(e) ==
    { [i \in 1..Len(e) |-> e[p[i]]] :
        p \in { q \in [1..Len(e) -> 1..Len(e)] :
                  \A i, j \in 1..Len(e) : q[i] = q[j] => i = j } }

\* A lookup that sees only the entry the iteration yields first.
saved_settings_get_first_yielded(entries) ==
    IF entries = << >> THEN EmptyMap
    ELSE [k \in { entries[1].key } |-> entries[1].settings]

\* saved_settings.get(&key), for every key: the value stored under the key,
\* wherever the iteration order puts its entry.
saved_settings_get(entries) ==
    [k \in { entries[i].key : i \in 1..Len(entries) } |->
        entries[CHOOSE i \in 1..Len(entries) : entries[i].key = k].settings]

OrderInit ==
    /\ ProgramAtRest
    /\ args \in [servers : { parse_lines(l) : l \in SeqsUpTo(OrderLines, MaxLines) },
                 entries : HashMapEntries]
    /\ result = [stage |-> "start", entries |-> << >>,
                 first |-> << >>, second |-> << >>]

OrderFirstCall ==
    /\ result.stage = "start"
    /\ result' = [result EXCEPT
                    !.stage = "first",
                    !.first = assign_local_ports(args.servers,
                                                 saved_settings_get(args.entries))]
    /\ UNCHANGED << args, program_vars >>

OrderSecondCall ==
    /\ result.stage = "first"
    /\ \E entries \in IterationOrders(args.entries) :
          result' = [result EXCEPT
                       !.stage = "second",
                       !.entries = entries,
                       !.second = assign_local_ports(args.servers,
                                                     saved_settings_get(entries))]
    /\ UNCHANGED << args, program_vars >>

OrderNext == OrderFirstCall \/ OrderSecondCall

SpecOrder == OrderInit /\ [][OrderNext]_vars

FetchConfigFiles ==
    { f \in ConfigFiles : f.kind = "ok" /\ f.config.subscription_url # "" }

\* The requests still in flight, in the order they were issued: request 1 is
\* the earlier one, request 2 the later one.
InFlight(published) ==
    IF published = << >> THEN << 1, 2 >>
    ELSE IF Len(published) = 1 THEN << 3 - published[1] >>
    ELSE << >>

\* The window has opened and started its fetch and the Update button has
\* been clicked, or the Update button has been clicked twice; neither thread
\* has fetched yet. Of each request, the merged list it built; of the
\* publications, the requests in the order they stored their list.
FetchesInit ==
    /\ config_file \in FetchConfigFiles
    /\ VPN_SERVERS \in CycleRegistries
    /\ XRAY_PROCESSES = EmptyMap
    /\ orphans = 0
    /\ MENU_UPDATE_REQUESTED = FALSE
    /\ pc = "idle"
    /\ cycle = NoCycle
    /\ workers \in { << Worker(TRUE, config_file.config.server_settings),
                        Worker(FALSE, EmptyMap) >>,
                     << Worker(FALSE, EmptyMap), Worker(FALSE, EmptyMap) >> }
    /\ settings_window = TRUE
    /\ last_call = NoCall
    /\ saves = 0
    /\ args = NoArgs
    /\ result = [merged |-> << << >>, << >> >>, fetched |-> {},
                 published |-> << >>]

\* One of the threads fetches and merges.
FetchesFetch ==
    /\ \E w \in 1..Len(workers), response \in Responses(LiveLines, MaxFeed) :
          /\ Fetch(w, response)
          /\ LET request == InFlight(result.published)[w]
             IN  result' = [result EXCEPT
                              !.merged[request] = workers'[w].servers,
                              !.fetched = @ \cup {request}]
    /\ UNCHANGED << config_file, VPN_SERVERS, XRAY_PROCESSES, orphans,
                    MENU_UPDATE_REQUESTED, pc, cycle, settings_window, last_call,
                    saves, args >>

\* One of the threads takes the lock of VPN_SERVERS and stores its list.
FetchesPublish ==
    /\ \E w \in 1..Len(workers) :
          /\ Publish(w)
          /\ result' = [result EXCEPT
                          !.published = Append(@, InFlight(result.published)[w])]
    /\ UNCHANGED << config_file, XRAY_PROCESSES, orphans, MENU_UPDATE_REQUESTED,
                    pc, cycle, settings_window, last_call, saves, args >>

FetchesNext == FetchesFetch \/ FetchesPublish

SpecFetches == FetchesInit /\ [][FetchesNext]_vars

(***************************************************************************)
(* Properties of concurrent background fetches (SpecFetches).              *)
(***************************************************************************)
\* C23: background fetches are neither cancelled nor ordered: once a
\* request has stored its list, the registry holds the list of the request
\* that took the registry lock last, whichever was issued first; so when
\* the earlier request completes after the later one, the registry ends up
\* holding the earlier request's list.
C23_LastToPublishWins ==
    result.published # << >> =>
        VPN_SERVERS = Some(result.merged[result.published[Len(result.published)]])

\* Both requests have completed, the later one first, with different lists:
\* the registry holds the list of the earlier request.
C23_Witness ==
    /\ result.published = << 2, 1 >>
    /\ workers = << >>
    /\ result.merged[1] # result.merged[2]
    /\ VPN_SERVERS = Some(result.merged[1])

(***************************************************************************)
(* Properties of the table against the registry (SpecCycle).               *)
(***************************************************************************)
\* The keys of the servers of the registry.
RegistryKeys(registry) ==
    IF registry.some
    THEN { get_server_key(registry.servers[i]) : i \in 1..Len(registry.servers) }
    ELSE {}

\* The step on which restart_xray_servers returns.
CycleReturns == pc = "request_update" /\ pc' = "loop_top"

\* C24: a process tracked for a key that the latest registry lacks lasts at
\* most until the next full reconciliation cycle: when a cycle returns,
\* every key of the process table is a key of a server of the registry.
C24_CycleRestoresTableInRegistry ==
    [][ CycleReturns =>
            DOMAIN XRAY_PROCESSES' \subseteq RegistryKeys(VPN_SERVERS') ]_vars

(***************************************************************************)
(* One call of start_server, stop_server or stop_all_servers, step by      *)
(* step, with the lock of XRAY_PROCESSES.                                  *)
(***************************************************************************)
\* Where the call is (result.at), whether it holds the guard of
\* XRAY_PROCESSES.lock() (result.locked), and what it returns (result.ok).
LockInit ==
    /\ config_file = [kind |-> "absent", config |-> ConfigDefault]
    /\ VPN_SERVERS = [some |-> FALSE, servers |-> << >>]
    /\ XRAY_PROCESSES \in Tables
    /\ orphans = 0
    /\ MENU_UPDATE_REQUESTED = FALSE
    /\ pc = "rest"
    /\ cycle = NoCycle
    /\ workers = << >>
    /\ settings_window = FALSE
    /\ last_call = NoCall
    /\ saves = 0
    /\ args \in [op : {"start_server", "stop_server", "stop_all_servers"},
                 server_key : TableKeys, uri : {"vless://a:1#A2"},
                 local_port : {FirstPort}, proxy_type : {"SOCKS", "HTTP"},
                 succeeds : BOOLEAN]
    /\ result = [at |-> "entry", locked |-> FALSE, ok |-> TRUE]

LockRest ==
    UNCHANGED << config_file, VPN_SERVERS, orphans, MENU_UPDATE_REQUESTED, pc,
                 cycle, workers, settings_window, last_call, saves, args >>

\* start_server: the ports and the config are computed and runner.start is
\* called.
StartSpawn ==
    /\ args.op = "start_server"
    /\ result.at = "entry"
    /\ result' = [result EXCEPT !.at = "spawn"]
    /\ UNCHANGED XRAY_PROCESSES
    /\ LockRest

\* runner.start(..).await returns: an error leaves start_server through ?.
StartSpawned ==
    /\ result.at = "spawn"
    /\ result' = [result EXCEPT
                    !.at = IF args.succeeds THEN "lock" ELSE "returned",
                    !.ok = args.succeeds]
    /\ UNCHANGED XRAY_PROCESSES
    /\ LockRest

\* start_server: if let Ok(mut processes) = XRAY_PROCESSES.lock()
StartLock ==
    /\ result.at = "lock"
    /\ result' = [result EXCEPT !.at = "insert", !.locked = TRUE]
    /\ UNCHANGED XRAY_PROCESSES
    /\ LockRest

\* start_server: processes.insert(server_key.to_string(), runner)
StartInsert ==
    /\ result.at = "insert"
    /\ XRAY_PROCESSES' = start_server(XRAY_PROCESSES, args.server_key, args.uri,
                                      args.local_port, args.proxy_type, TRUE).table
    /\ result' = [result EXCEPT !.at = "unlock"]
    /\ LockRest

\* stop_server and stop_all_servers: if let Ok(mut processes) =
\* XRAY_PROCESSES.lock()
StopLock ==
    /\ args.op \in {"stop_server", "stop_all_servers"}
    /\ result.at = "entry"
    /\ result' = [result EXCEPT
                    !.at = IF args.op = "stop_server" THEN "remove" ELSE "drain",
                    !.locked = TRUE]
    /\ UNCHANGED XRAY_PROCESSES
    /\ LockRest

\* stop_server: if let Some(mut runner) = processes.remove(server_key), and
\* with a runner removed the call of runner.stop().
StopRemove ==
    /\ result.at = "remove"
    /\ XRAY_PROCESSES' = stop_server(XRAY_PROCESSES, args.server_key,
                                     ~args.succeeds).table
    /\ result' = [result EXCEPT
                    !.at = IF args.server_key \in DOMAIN XRAY_PROCESSES
                           THEN "terminate" ELSE "unlock"]
    /\ LockRest

\* stop_all_servers: for (_key, mut runner) in processes.drain(), and with a
\* runner drained the calls of runner.stop().
StopAllDrain ==
    /\ result.at = "drain"
    /\ XRAY_PROCESSES' = stop_all_servers(XRAY_PROCESSES,
                            IF args.succeeds THEN {} ELSE DOMAIN XRAY_PROCESSES).table
    /\ result' = [result EXCEPT
                    !.at = IF XRAY_PROCESSES # EmptyMap
                           THEN "terminate" ELSE "unlock"]
    /\ LockRest

\* runner.stop().await returns, inside the block of the if let that holds
\* the guard: stop_server passes an error on through ?, stop_all_servers
\* drops it.
StopTerminated ==
    /\ result.at = "terminate"
    /\ result' = [result EXCEPT
                    !.at = "unlock",
                    !.ok = IF args.op = "stop_server" THEN args.succeeds ELSE TRUE]
    /\ UNCHANGED XRAY_PROCESSES
    /\ LockRest

\* The block of the if let ends, or ? returns out of it: the guard is dropped
\* and the function returns.
Unlock ==
    /\ result.at = "unlock"
    /\ result' = [result EXCEPT !.at = "returned", !.locked = FALSE]
    /\ UNCHANGED XRAY_PROCESSES
    /\ LockRest

LockNext ==
    \/ StartSpawn
    \/ StartSpawned
    \/ StartLock
    \/ StartInsert
    \/ StopLock
    \/ StopRemove
    \/ StopAllDrain
    \/ StopTerminated
    \/ Unlock

SpecLock == LockInit /\ [][LockNext]_vars

(***************************************************************************)
(* Properties of the lock of the process table (SpecLock).                 *)
(***************************************************************************)
\* C25: the lock of the process table is held only around the insert or
\* remove step: start_server spawns without the lock and holds it for the
\* insert, stop_server holds it for the removal and not while the runner is
\* terminated, and only stop_all_servers terminates runners under the lock.
C25_LockOnlyAroundTableStep ==
    /\ result.at = "spawn" => ~result.locked
    /\ result.at \in {"insert", "remove", "drain"} => result.locked
    /\ (result.at = "terminate" /\ result.locked) => args.op = "stop_all_servers"

(***************************************************************************)
(* Properties of what triggers a reconciliation cycle (Spec).              *)
(***************************************************************************)
\* The step on which restart_xray_servers is entered.
CycleEntered == ~InCycle /\ InCycle'

\* The step of the Save command on which config.save() has returned Ok.
SaveSucceeded ==
    /\ pc = "idle"
    /\ saves' = saves + 1
    /\ config_file'.kind = "ok"

\* The step of the Save command on which config.save() has returned Err.
SaveHasFailed == pc = "idle" /\ pc' = "message_box"

\* C26: a reconciliation cycle runs at application start and after every
\* successful Save, and only then: the program starts in a cycle, a later
\* cycle is entered exactly on the step of a Save whose config.save()
\* succeeded, and a Save whose config.save() failed enters no cycle, shows
\* the error, and leaves the process table and the registry as they were.
C26_CycleAtStartAndAfterSuccessfulSave ==
    /\ pc = "stop_all"
    /\ [][ /\ CycleEntered <=> SaveSucceeded
           /\ SaveSucceeded => pc' = "stop_all" /\ cycle'.caller = "save"
           /\ SaveHasFailed =>
                /\ ~InCycle'
                /\ XRAY_PROCESSES' = XRAY_PROCESSES
                /\ VPN_SERVERS' = VPN_SERVERS
           /\ (pc = "idle" /\ settings_window /\ pc' # "idle" /\ pc' # "exited")
                => SaveSucceeded \/ SaveHasFailed ]_vars

\* A Save has failed with servers tracked and published, and its error is
\* on the screen; the Save before it succeeded and ran a cycle.
C26_Witness ==
    /\ pc = "message_box"
    /\ saves = MaxSaves
    /\ config_file.kind = "ok"
    /\ XRAY_PROCESSES # EmptyMap
    /\ VPN_SERVERS.some

(***************************************************************************)
(* Properties of the end of the program (Spec).                            *)
(***************************************************************************)
\* C27: stop_all_servers runs at shutdown: on every path by which the
\* message loop exits (the Exit command and WM_QUIT), stop_all_servers has
\* emptied the process table before the loop exits, so the table is empty
\* when the program ends.
C27_StopAllBeforeExit ==
    pc = "exited" => XRAY_PROCESSES = EmptyMap

(***************************************************************************)
(* Properties of the arguments of start_server (SpecCycle).                *)
(***************************************************************************)
\* C28: whenever a cycle starts a process for a server, the local port and
\* the proxy kind passed to start_server are the local port and the proxy
\* kind of that server in the list the same cycle published, for every
\* saved port, 0 included.
C28_StartArgsAsPublished ==
    \A j \in 1..Len(cycle.starts) :
        \A i \in 1..Len(cycle.servers) :
            get_server_key(cycle.servers[i]) = cycle.starts[j].key =>
                /\ cycle.starts[j].local_port = cycle.servers[i].local_port
                /\ cycle.starts[j].proxy_type = cycle.servers[i].proxy_type

(***************************************************************************)
(* Properties of the processes against the table (SpecCycle).              *)
(***************************************************************************)
\* C29: no xray process is orphaned: every process that was spawned and has
\* not had its termination attempted is owned by a runner of the process
\* table; a start under a key that is already tracked does not replace the
\* earlier runner and leave its process running.
C29_NoOrphanedProcess ==
    orphans = 0

(***************************************************************************)
(* Properties of the table at the end of a cycle (SpecCycle).              *)
(***************************************************************************)
\* The keys of the servers of a list that are marked enabled.
EnabledKeys(servers) ==
    { get_server_key(servers[i]) :
        i \in { j \in 1..Len(servers) : servers[j].enabled } }

\* C30: if every spawn succeeds, then at the end of a configured cycle the
\* keys of the process table are the keys of the servers marked enabled in
\* the list that cycle published, whatever the feed returned to the cycle's
\* two fetches.
C30_TableIsEnabledAtCycleEnd ==
    ( /\ pc = "request_update"
      /\ CycleConfigured
      /\ \A j \in 1..Len(cycle.starts) : cycle.starts[j].ok )
        => DOMAIN XRAY_PROCESSES = EnabledKeys(cycle.servers)

(***************************************************************************)
(* Properties of stop_server step by step (SpecLock).                      *)
(***************************************************************************)
\* stop_server has removed what it found under the key: it is terminating
\* the runner, leaving the block of the lock, or has returned.
StopServerPastRemove ==
    /\ args.op = "stop_server"
    /\ result.at \in {"terminate", "unlock", "returned"}

\* C31: after stop_server(key) returns, with Ok or with an error, key is
\* absent from the process table: the entry is removed before the
\* termination is attempted, so a failed termination returns an error with
\* the entry already gone.
C31_RemovedBeforeTermination ==
    StopServerPastRemove =>
        /\ args.server_key \notin DOMAIN XRAY_PROCESSES
        /\ result.at = "returned" => ~result.locked

\* stop_server has returned an error: the termination of the runner it
\* removed failed.
C31_Witness ==
    /\ args.op = "stop_server"
    /\ result.at = "returned"
    /\ ~result.ok
    /\ ~args.succeeds
    /\ args.server_key \notin DOMAIN XRAY_PROCESSES

(***************************************************************************)
(* Properties of the settings the Save command persists (Spec).            *)
(***************************************************************************)
\* The local port, proxy kind and enabled flag of a server, as settings.
SettingsOf(server) ==
    ServerSettings(server.local_port, server.proxy_type, server.enabled)

\* C32: after a successful Save the persisted server settings hold exactly
\* one entry per key of the current registry, carrying the current local
\* port, proxy kind and enabled flag of the server of that key; entries
\* persisted before under keys the registry lacks are discarded.
C32_SavedSettingsAreRegistry ==
    [][ SaveSucceeded =>
          LET saved == config_file'.config.server_settings
          IN  /\ DOMAIN saved = RegistryKeys(VPN_SERVERS)
              /\ VPN_SERVERS.some =>
                    \A i \in 1..Len(VPN_SERVERS.servers) :
                        saved[get_server_key(VPN_SERVERS.servers[i])] =
                            SettingsOf(VPN_SERVERS.servers[i]) ]_vars

(***************************************************************************)
(* The rows of the settings window, an edit from one of their controls,    *)
(* and a background fetch in flight.                                       *)
(***************************************************************************)
\* The lists the window may display when the edit is made.
EditLists ==
    { assign_local_ports(parse_lines(l), EmptyMap) :
        l \in SeqsUpTo(LiveLines, MaxFeed) \ { << >> } }

\* The edits a control can issue: the state of a checkbox, a port the edit
\* control's text parses to, the selection of the combobox.
Edits ==
    [field : {"enabled"}, checked : BOOLEAN, port : {Unassigned},
     proxy_type : {""}]
    \cup [field : {"local_port"}, checked : {FALSE},
          port : {Unassigned, FirstPort + 7}, proxy_type : {""}]
    \cup [field : {"proxy_type"}, checked : {FALSE}, port : {Unassigned},
          proxy_type : {"SOCKS", "HTTP"}]

\* What the handler of the edit stores in the registry it has locked.
apply_edit(global_servers, server_index, edit) ==
    IF edit.field = "enabled"
    THEN set_enabled(global_servers, server_index, edit.checked)
    ELSE IF edit.field = "local_port"
    THEN set_local_port(global_servers, server_index, edit.port)
    ELSE set_proxy_type(global_servers, server_index, edit.proxy_type)

\* No edit has been made yet. Of an edit: the row of its control, what was
\* entered, the server that row displayed, the registry before and after
\* the handler, and whether try_lock failed.
NoEdit ==
    [row |-> 0,
     edit |-> [field |-> "", checked |-> FALSE, port |-> Unassigned,
               proxy_type |-> ""],
     shown |-> VpnServer("", "", 0, "", FALSE, Unassigned, ""),
     before |-> [some |-> FALSE, servers |-> << >>],
     after |-> [some |-> FALSE, servers |-> << >>],
     contended |-> FALSE]

\* The window displays the registry, and a thread of the Update button is in
\* flight. result.rows are the servers rebuild_server_list laid out, by row;
\* result.held is whether the thread holds the lock of VPN_SERVERS;
\* result.posted is whether WM_UPDATE_SERVERS is in the message queue.
EditInit ==
    /\ config_file \in FetchConfigFiles
    /\ \E servers \in EditLists :
          /\ VPN_SERVERS = Some(servers)
          /\ result = [rows |-> servers, held |-> FALSE, posted |-> FALSE,
                       edit |-> NoEdit]
    /\ XRAY_PROCESSES = EmptyMap
    /\ orphans = 0
    /\ MENU_UPDATE_REQUESTED = FALSE
    /\ pc = "idle"
    /\ cycle = NoCycle
    /\ workers = << Worker(FALSE, EmptyMap) >>
    /\ settings_window = TRUE
    /\ last_call = NoCall
    /\ saves = 0
    /\ args = NoArgs

EditRest ==
    UNCHANGED << config_file, XRAY_PROCESSES, orphans, MENU_UPDATE_REQUESTED,
                 pc, cycle, settings_window, last_call, saves, args >>

\* The thread fetches and merges.
EditFetch ==
    /\ workers # << >>
    /\ \E response \in Responses(LiveLines, MaxFeed) : Fetch(1, response)
    /\ UNCHANGED << VPN_SERVERS, result >>
    /\ EditRest

\* The thread: if let Ok(mut global_servers) = VPN_SERVERS.lock()
EditThreadLocks ==
    /\ workers # << >>
    /\ workers[1].stage = "publish"
    /\ ~result.held
    /\ result' = [result EXCEPT !.held = TRUE]
    /\ UNCHANGED << VPN_SERVERS, workers >>
    /\ EditRest

\* The thread stores its list, drops the guard and posts WM_UPDATE_SERVERS.
EditThreadStores ==
    /\ workers # << >>
    /\ result.held
    /\ Publish(1)
    /\ result' = [result EXCEPT !.held = FALSE, !.posted = TRUE]
    /\ EditRest

\* The window handles WM_UPDATE_SERVERS: rebuild_server_list lays out the
\* servers of the registry. (VPN_SERVERS.lock() waits for the thread.)
EditRowsRebuilt ==
    /\ result.posted
    /\ ~result.held
    /\ result' = [result EXCEPT
                    !.posted = FALSE,
                    !.rows = IF VPN_SERVERS.some THEN VPN_SERVERS.servers ELSE @]
    /\ UNCHANGED << VPN_SERVERS, workers >>
    /\ EditRest

\* The user changes a control of a displayed row: the handler takes the
\* index from the control id and, if try_lock succeeds, stores the value in
\* the server at that index of the registry.
EditMade ==
    /\ result.edit.row = 0
    /\ \E row \in 1..Len(result.rows), edit \in Edits :
          /\ VPN_SERVERS' = IF result.held THEN VPN_SERVERS
                            ELSE apply_edit(VPN_SERVERS, row, edit)
          /\ result' = [result EXCEPT
                          !.edit = [row |-> row, edit |-> edit,
                                    shown |-> result.rows[row],
                                    before |-> VPN_SERVERS,
                                    after |-> VPN_SERVERS',
                                    contended |-> result.held]]
    /\ UNCHANGED workers
    /\ EditRest

EditNext ==
    \/ EditFetch
    \/ EditThreadLocks
    \/ EditThreadStores
    \/ EditRowsRebuilt
    \/ EditMade

SpecEdit == EditInit /\ [][EditNext]_vars

(***************************************************************************)
(* Properties of in-place edits (SpecEdit).                                *)
(***************************************************************************)
\* The server the row displayed, with the edit applied to it.
Edited(server, edit) ==
    IF edit.field = "enabled" THEN [server EXCEPT !.enabled = edit.checked]
    ELSE IF edit.field = "local_port" THEN [server EXCEPT !.local_port = edit.port]
    ELSE [server EXCEPT !.proxy_type = edit.proxy_type]

\* C33: an in-place edit from the control of row i changes exactly that one
\* field of the server the window displayed at row i and nothing else, also
\* when a background fetch has replaced the registry since the rows were
\* laid out, and is not dropped when another thread holds the registry lock.
C33_EditReachesDisplayedServer ==
    result.edit.row # 0 =>
        LET e == result.edit
        IN  /\ e.after.some
            /\ Len(e.after.servers) = Len(e.before.servers)
            /\ e.row <= Len(e.after.servers)
            /\ \A i \in 1..Len(e.after.servers) :
                  e.after.servers[i] =
                      IF i = e.row THEN Edited(e.shown, e.edit)
                      ELSE e.before.servers[i]

(***************************************************************************)
(* Properties of a cycle whose Config::load fails (SpecCycle).             *)
(***************************************************************************)
\* Config::load returns Err for the file: no path to it, or it cannot be
\* read, or it is not the JSON of a Config.
LoadFails == config_file.kind \in {"no_path", "unreadable", "unparsable"}

\* C34: when loading the persisted config fails during a cycle, the cycle
\* behaves like the unconfigured case: after the initial stop_all_servers
\* no process is started and the process table is empty, no step of the
\* cycle changes the registry, and the cycle goes from the load straight to
\* request_menu_update and returns with the refresh requested, the error
\* being reported nowhere.
C34_FailedLoadLikeUnconfigured ==
    [][ (LoadFails /\ CycleStep) =>
          /\ VPN_SERVERS' = VPN_SERVERS
          /\ XRAY_PROCESSES' = EmptyMap
          /\ cycle'.starts = << >>
          /\ ~cycle'.loaded
          /\ pc' \in {"load", "request_update", "loop_top"}
          /\ pc' = "loop_top" => (pc = "request_update" /\ MENU_UPDATE_REQUESTED') ]_vars

\* The load has failed in a cycle whose stop_all_servers stopped a runner:
\* the table is empty and the registry still holds a server.
C34_Witness ==
    /\ LoadFails
    /\ pc = "request_update"
    /\ ~cycle.loaded
    /\ cycle.stopped # {}
    /\ cycle.starts = << >>
    /\ XRAY_PROCESSES = EmptyMap
    /\ VPN_SERVERS.some
    /\ VPN_SERVERS.servers # << >>

(***************************************************************************)
(* The second pass of assign_local_ports, one iteration of its for loop    *)
(* at a time, at the top of the port range (src/vpn/mod.rs:43-53).         *)
(*                                                                         *)
(* next_port goes up by one for every port it passes, so it is at a port n *)
(* only after a list whose servers took or held every port of 1080..n-1.   *)
(* The list is such a head followed by `tail`: the loop is entered at the  *)
(* first server of the tail with next_port = n and used_ports holding      *)
(* 1080..n-1 and the saved ports of the tail.  u16 += 1 at 65535 panics in *)
(* a build with overflow checks and wraps to 0 in a build without.         *)
(***************************************************************************)
\* The highest ports of u16.
TopPorts == (U16 - MaxTop)..(U16 - 1)

\* next_port when the loop reaches the tail: 1080 (no head), or a top port.
PortsNextPorts == {FirstPort} \cup TopPorts

\* local_port of the tail's servers after the first pass: none saved, or a
\* saved port below 1080 or at the top.
PortsTailPorts == {Unassigned, 80} \cup TopPorts

PortsTails ==
    UNION { [1..n -> [local_port : PortsTailPorts]] : n \in 0..MaxLines }

\* The saved ports of the tail, which the first pass put in used_ports.
PortsSaved(tail) ==
    { tail[i].local_port : i \in { j \in 1..Len(tail) : tail[j].local_port # Unassigned } }

PortsInit ==
    /\ ProgramAtRest
    /\ args \in [tail : PortsTails, next_port : PortsNextPorts,
                 overflow_checks : BOOLEAN]
    /\ args.next_port # FirstPort => (args.next_port - 1) \notin PortsSaved(args.tail)
    /\ result = [at |-> "loop", i |-> 1, servers |-> args.tail,
                 next_port |-> args.next_port,
                 used_ports |-> (FirstPort..(args.next_port - 1))
                                   \cup PortsSaved(args.tail)]

\* while used_ports.contains(&next_port) { next_port += 1; } adds one to
\* next_port = 65535: every port from next_port up is used.
skip_overflows(next_port, used_ports) ==
    \A port \in next_port..(U16 - 1) : port \in used_ports

\* One iteration of for server in servers.iter_mut().
PortsIteration ==
    /\ result.at = "loop"
    /\ result.i <= Len(result.servers)
    /\ IF result.servers[result.i].local_port # Unassigned
       THEN result' = [result EXCEPT !.i = @ + 1]
       ELSE IF args.overflow_checks
               /\ skip_overflows(result.next_port, result.used_ports)
       THEN result' = [result EXCEPT !.at = "panicked"]
       ELSE LET port == skip_used(result.next_port, result.used_ports)
            IN  IF args.overflow_checks /\ port = U16 - 1
                THEN result' = [result EXCEPT
                                  !.at = "panicked",
                                  !.servers[result.i].local_port = port,
                                  !.used_ports = @ \cup {port}]
                ELSE result' = [result EXCEPT
                                  !.i = @ + 1,
                                  !.servers[result.i].local_port = port,
                                  !.used_ports = @ \cup {port},
                                  !.next_port = (port + 1) % U16]
    /\ UNCHANGED << args, program_vars >>

\* The loop ends and assign_local_ports returns.
PortsReturn ==
    /\ result.at = "loop"
    /\ result.i > Len(result.servers)
    /\ result' = [result EXCEPT !.at = "returned"]
    /\ UNCHANGED << args, program_vars >>

PortsNext == PortsIteration \/ PortsReturn

SpecPorts == PortsInit /\ [][PortsNext]_vars

\* The servers of the tail that the second pass has given a port.
PortsAllocated ==
    { i \in 1..Len(args.tail) :
        /\ args.tail[i].local_port = Unassigned
        /\ i < result.i \/ result.servers[i].local_port # Unassigned }

\* C35: the second pass of assign_local_ports always terminates and every
\* port it allocates lies in 1080..65535, next_port never overflowing or
\* wrapping, for every set of saved ports and every list length.
C35_SecondPassStaysInRange ==
    /\ result.at # "panicked"
    /\ result.next_port >= FirstPort
    /\ \A i \in PortsAllocated :
          result.servers[i].local_port \in FirstPort..(U16 - 1)

(***************************************************************************)
(* The message loop and the refresh flag, statement by statement           *)
(* (src/main.rs:127-176), with request_menu_update called from a thread    *)
(* other than the loop's, as its comment allows (src/main.rs:29).          *)
(* pc is the loop's position: "loop_top" at the load of the flag (129),    *)
(* "update_tray_menu" (130), "clear" at the store of false (131), "idle"   *)
(* in GetMessageW (166).  result counts the calls of request_menu_update   *)
(* (requests) and those made before the menu's snapshot was taken (seen).  *)
(***************************************************************************)
\* get_running_servers: the keys of the process table.
get_running_servers(processes) == DOMAIN processes

\* create_tray_menu_with_servers: one row for every server of the registry
\* whose key is running, in the order of the registry.
create_tray_menu_with_servers(processes, global_servers) ==
    IF get_running_servers(processes) # {} /\ global_servers.some
    THEN SelectSeq(global_servers.servers,
                   LAMBDA server :
                       get_server_key(server) \in get_running_servers(processes))
    ELSE << >>

MenuInit ==
    /\ config_file = [kind |-> "absent", config |-> ConfigDefault]
    /\ VPN_SERVERS \in CycleRegistries
    /\ XRAY_PROCESSES \in CycleTables
    /\ orphans = 0
    /\ MENU_UPDATE_REQUESTED = FALSE
    /\ pc = "loop_top"
    /\ cycle = NoCycle
    /\ workers = << >>
    /\ settings_window = FALSE
    /\ last_call = NoCall
    /\ saves = 0
    /\ args = NoArgs
    /\ result = [menu |-> create_tray_menu_with_servers(XRAY_PROCESSES, VPN_SERVERS),
                 requests |-> 0, seen |-> 0]

MenuRest ==
    UNCHANGED << config_file, VPN_SERVERS, XRAY_PROCESSES, orphans, cycle,
                 workers, settings_window, last_call, saves, args >>

\* if MENU_UPDATE_REQUESTED.load(Ordering::Relaxed)
MenuCheck ==
    /\ pc = "loop_top"
    /\ pc' = IF MENU_UPDATE_REQUESTED THEN "update_tray_menu" ELSE "idle"
    /\ UNCHANGED << MENU_UPDATE_REQUESTED, result >>
    /\ MenuRest

\* update_tray_menu: the menu is built from the table and the registry as
\* they are now.
MenuRebuild ==
    /\ pc = "update_tray_menu"
    /\ result' = [result EXCEPT
                    !.menu = create_tray_menu_with_servers(XRAY_PROCESSES,
                                                           VPN_SERVERS),
                    !.seen = result.requests]
    /\ pc' = "clear"
    /\ UNCHANGED MENU_UPDATE_REQUESTED
    /\ MenuRest

\* MENU_UPDATE_REQUESTED.store(false, Ordering::Relaxed)
MenuClear ==
    /\ pc = "clear"
    /\ MENU_UPDATE_REQUESTED' = FALSE
    /\ pc' = "idle"
    /\ UNCHANGED result
    /\ MenuRest

\* GetMessageW returns a message, it is dispatched and the loop starts over.
MenuMessage ==
    /\ pc = "idle"
    /\ pc' = "loop_top"
    /\ UNCHANGED << MENU_UPDATE_REQUESTED, result >>
    /\ MenuRest

\* request_menu_update called from another thread, wherever the loop is.
MenuRequest ==
    /\ result.requests < MaxRequests
    /\ MENU_UPDATE_REQUESTED' = request_menu_update(MENU_UPDATE_REQUESTED)
    /\ result' = [result EXCEPT !.requests = @ + 1]
    /\ UNCHANGED pc
    /\ MenuRest

MenuLoop == MenuCheck \/ MenuRebuild \/ MenuClear \/ MenuMessage

MenuNext == MenuLoop \/ MenuRequest

SpecMenu == MenuInit /\ [][MenuNext]_vars

\* The loop goes on: its statements are executed and messages keep arriving.
SpecMenuFair == SpecMenu /\ WF_vars(MenuLoop)

\* C36: a refresh request is never lost: after request_menu_update is
\* called from any thread, the tray menu is eventually rebuilt from a
\* snapshot taken after that call, also when the call falls between the
\* rebuild and the clearing of MENU_UPDATE_REQUESTED.
C36_RequestHonoured ==
    \A n \in 1..MaxRequests : (result.requests >= n) ~> (result.seen >= n)

====
